---- MODULE Spec2Model ----
(***************************************************************************)
(* A state-machine model of the reactivity system of                       *)
(* vue-design-and-implement: the dependency store (effectsBuckets), the    *)
(* effect runtime (effect / cleanup / activeEffect / effectStack), the     *)
(* proxies' get and set traps, trigger, and computed.                      *)
(*                                                                         *)
(* The repository holds the engine in progressive variants, one per file.  *)
(* The variable `variant` names the file whose program is running; every   *)
(* specification fixes it in its initial state:                            *)
(*   "branch"    src/2.reactivity-system/3.branch-and-cleanup.ts (1-117)   *)
(*   "stack"     src/unnamed/part_002 (43-178)                             *)
(*   "computed7" src/2.reactivity-system/7.computed.ts                     *)
(*   "computed8" src/2.reactivity-system/8.computed-effect-trigger.ts      *)
(*   "array"     src/unnamed/part_004 (a reactive object)                  *)
(*   "list"      src/unnamed/part_004 (a reactive array)                   *)
(*   "watch"     src/2.reactivity-system/10.watch-complete.ts              *)
(*   "identity"  src/unnamed/part_004 (reactiveMap, includes)              *)
(*   "sched"     src/unnamed/part_001 (effect with a scheduler)            *)
(*   "push"      src/unnamed/part_004 (mutating array methods)             *)
(*   "object"    src/2.reactivity-system/13.object-proxy.ts                *)
(*   "proto"     src/2.reactivity-system/10.watch-complete.ts (378-509)    *)
(*   "deep"      src/unnamed/part_000 (deep and shallow wrappers)          *)
(*   "traverse"  src/2.reactivity-system/10.watch-complete.ts (203-218)    *)
(*   "source"    src/2.reactivity-system/10.watch-complete.ts (watch on    *)
(*               the reactive object itself)                               *)
(*                                                                         *)
(* JavaScript runs the engine on one thread with nested calls: a write     *)
(* inside an effect function calls trigger, which calls other effect       *)
(* functions, and so on.  The model keeps that call stack explicitly       *)
(* (callStack) and executes one statement of the running function per      *)
(* step; the script's own statements (registrations, writes, reads) are    *)
(* taken only when the call stack is empty.                                *)
(***************************************************************************)
EXTENDS Integers, Sequences, FiniteSets, TLC

\* ---------------------------------------------------------------- bounds
\* How many statements the top-level script executes.
MaxOps == 4
\* How many effect functions are ever created.
MaxEffects == 3
\* How deep the JavaScript call stack may grow (the engine has no limit; a
\* run-away recursion is cut here).
MaxDepth == 6

\* How many watches the script registers.
MaxWatches == 1

\* ------------------------------------------------------------- constants
\* null / undefined
None == 0
Undef == -1
\* The number NaN
NaN == -2
\* The reference to proxyData (what traverse(proxyData) returns)
ProxyData == 100

\* The index keys of an array target, in ascending order, and `length`.
Indices == <<"0", "1", "2", "3", "4">>

\* ("iterate" stands for the symbol ITERATE_KEY; "parent.bar" for the key bar
\* of the second target of the prototype program, whose first target is the
\* child; "foo.aaa" for the key aaa of the object held by foo.)
Keys == {"ok", "text", "foo", "bar", "count", "value", "length", "iterate", "parent.bar",
         "foo.aaa"}
        \cup {Indices[i] : i \in 1..Len(Indices)}
Computeds == {"sum", "pick"}
\* The computed variants create up to two effect functions before the script starts.
EffectIds == 1..(MaxEffects + 2)

VARIABLES
    variant,        \* which file's program runs (constant in a behaviour)
    originData,     \* the raw object behind the proxy
    effectsBuckets, \* depsMap of the one target: key -> Set<EffectFn>, in insertion order
    effects,        \* the effect functions created so far; an EffectFn is its index
    deps,           \* effectFn.deps: the dependency sets (named by key) it was added to
    activeEffect,   \* the global activeEffect (None for null / undefined)
    effectStack,    \* the global effectStack
    dirty,          \* computed: dirty flag, per computed
    cacheValue,     \* computed: cached value, per computed
    callStack,      \* the JavaScript call stack: frames of running functions
    \* ---- observation (history) variables, read by the properties only
    budget,         \* top-level statements left
    runs,           \* how often fn() of each effect was called
    reads,          \* keys read through the proxy by the most recent run of each effect
    logged,         \* the value each effect's last finished run ended with
    out,            \* the result of the last top-level read
    lastOp,         \* the last top-level statement
    pre,            \* the state just before the last top-level statement
    lastExit,       \* "throw" once the last top-level statement ended by an exception
    \* ---- watch (10.watch-complete.ts)
    watcher,        \* per watch: its closure variables oldValue, newValue, cleanup
    calls,          \* observation: the invocations of watch callbacks, in order
    inflight,       \* the callback invocations awaiting their fetch
    expired,        \* the callback invocations whose `expired` flag is set
    finalData,      \* per watch: the variable its asynchronous callback assigns
    applied,        \* observation: per watch, the invocations that assigned finalData
    \* ---- timers (part_001)
    timers,         \* the effect functions handed to setTimeout, in order
    trace,          \* observation: what console.log printed, in order
    \* ---- wrappers (part_004: reactive / reactiveMap)
    proxies,        \* the wrappers created so far; a wrapper is its index
    reactiveMap,    \* raw object -> its wrapper (None if it has none)
    held,           \* observation: per raw object, the wrappers the script received for it
    \* ---- array methods (part_004)
    shouldTrack,    \* the global shouldTrack
    \* ---- traverse (10.watch-complete.ts)
    graph,          \* the plain objects traverse is given: object -> its property values
    seen,           \* traverse's `seen` set
    visits          \* observation: how often each object's properties were enumerated

prog == <<variant, originData, effectsBuckets, effects, deps, activeEffect,
          effectStack, dirty, cacheValue, callStack>>
hist == <<budget, runs, reads, logged, out, lastOp, pre, lastExit>>
watchVars == <<watcher, calls, inflight, expired, finalData, applied>>
timerVars == <<timers, trace>>
heapVars == <<proxies, reactiveMap, held>>
arrayVars == <<shouldTrack>>
graphVars == <<graph, seen, visits>>
ext == <<watchVars, timerVars, heapVars, arrayVars, graphVars>>
vars == <<prog, hist, ext>>

\* ---------------------------------------------------------------- helpers
Range(s) == {s[i] : i \in 1..Len(s)}
Remove(s, x) == SelectSeq(s, LAMBDA y : y # x)
\* Set.prototype.add on an insertion-ordered set
SetAdd(s, x) == IF x \in Range(s) THEN s ELSE Append(s, x)
Top(s) == s[Len(s)]
Pop(s) == SubSeq(s, 1, Len(s) - 1)
Idle == callStack = <<>>
\* Number(key) for an index key; NaN (no number) for every other key.
IsIndex(k) == \E i \in 1..Len(Indices) : Indices[i] = k
Number(k) == (CHOOSE i \in 1..Len(Indices) : Indices[i] = k) - 1

\* ------------------------------------------------------- effect functions
\* The user functions of the demos, as statement lists.  Statements:
\*   get k     acc = proxy[k]                 put k n   proxy[k] = acc + n
\*   add k     acc = acc + proxy[k]           set k n   proxy[k] = n
\*   jz n      if (!acc) goto n               effect b  effect(b)
\*   value c   acc = c.value                  throw     throw new Error()
\*   log       console.log(acc)
\*   push n    arr.push(n)                    shift     arr.shift()
\*   forin     for (const key in proxy) {}
\*   getchild k  acc = proxyChild[k]
\*   getnested k acc = reactive(obj).foo.aaa
\*   traverse    acc = traverse(proxyData)
Ins(op, k, n) == [op |-> op, k |-> k, n |-> n]

Code(b) ==
    CASE b = "branch" -> <<Ins("get", "ok", 0), Ins("jz", "", 4), Ins("get", "text", 0)>>
      [] b = "inc"    -> <<Ins("get", "count", 0), Ins("put", "count", 1)>>
      [] b = "fn1"    -> <<Ins("effect", "fn2", 0), Ins("get", "foo", 0)>>
      [] b = "fn2"    -> <<Ins("get", "bar", 0)>>
      [] b = "boom"   -> <<Ins("get", "foo", 0), Ins("jz", "", 4), Ins("throw", "", 0)>>
      [] b = "sum"    -> <<Ins("get", "foo", 0), Ins("add", "bar", 0)>>
      [] b = "pick"   -> <<Ins("get", "ok", 0), Ins("jz", "", 4), Ins("get", "count", 0)>>
      [] b = "reader" -> <<Ins("value", "sum", 0)>>
      [] b = "both"   -> <<Ins("get", "foo", 0), Ins("value", "sum", 0)>>
      [] b = "picker" -> <<Ins("value", "pick", 0)>>
      [] b = "getfoo" -> <<Ins("get", "foo", 0)>>
      [] b = "len"    -> <<Ins("get", "length", 0)>>
      [] b = "at0"    -> <<Ins("get", "0", 0)>>
      [] b = "at2"    -> <<Ins("get", "2", 0)>>
      [] b = "lenat2" -> <<Ins("get", "length", 0), Ins("add", "2", 0)>>
      [] b = "show"   -> <<Ins("get", "count", 0), Ins("log", "", 0)>>
      [] b = "gettext" -> <<Ins("get", "text", 0)>>
      [] b = "childbar" -> <<Ins("getchild", "bar", 0)>>
      [] b = "nested" -> <<Ins("getnested", "foo.aaa", 0)>>
      [] b = "traverse" -> <<Ins("traverse", "", 0)>>
      [] b = "forin"  -> <<Ins("forin", "", 0)>>
      [] b = "push1"  -> <<Ins("push", "", 1)>>
      [] b = "push2"  -> <<Ins("push", "", 2)>>
      [] b = "shift"  -> <<Ins("shift", "", 0)>>
      [] b = "at0push" -> <<Ins("get", "0", 0), Ins("push", "", 9)>>
      [] OTHER        -> <<>>

\* A frame of the call stack.
\*   kind "fn":    the user function of effect e runs, at statement pc
\*   kind "run":   trigger's effectsToRun.forEach, todo still to be called
\*   kind "value": computed c's `get value()` waits for effectFn() to return
Frame(kind, e, run, todo, c) ==
    [kind |-> kind, e |-> e, pc |-> 1, acc |-> Undef, run |-> run, todo |-> todo, c |-> c]
FnFrame(e, run) == Frame("fn", e, run, <<>>, "")
RunFrame(todo) == Frame("run", None, 0, todo, "")
ValueFrame(c) == Frame("value", None, 0, <<>>, c)
\*   kind "job":   watch's job of watch effect e: waits for effectFn() (pc 1),
\*                 then for cb to return (pc 2)
\*   kind "seed":  watch waits for oldValue = effectFn()
JobFrame(e) == Frame("job", e, 0, <<>>, "")
\*   kind "set":   the set trap of the child waits for Reflect.set to return;
\*                 acc holds its oldValue, c its type, todo[1] newVal
SetFrame(old, type, v) == [Frame("set", None, 0, <<v>>, type) EXCEPT !.acc = old]
\*   kind "method": the array method c (push with argument todo[1], shift)
\*                 called by effect e (None: by the script) is at step pc;
\*                 run holds its local len, acc the element it just read
MethodFrame(c, e, args) == Frame("method", e, 0, args, c)
SeedFrame(e) == Frame("seed", e, 0, <<>>, "")
\*   kind "traverse": the call traverse(e, seen) (e None: a primitive value);
\*                 pc 0: just called, pc i > 0: at the i-th key of for ... in
TraverseFrame(x) == [Frame("traverse", x, 0, <<>>, "") EXCEPT !.pc = 0]

\* ------------------------------------------------------------ the scripts
\* What each file's script may do at top level: the effect functions it may
\* register, the writes it may make, the keys it may read through the proxy,
\* the computed values it holds.
TopBodies ==
    CASE variant = "branch"    -> {"branch"}
      [] variant = "stack"     -> {"fn1", "inc"}
      [] variant = "computed7" -> {"sum", "getfoo"}
      [] variant = "computed8" -> {"reader", "both", "picker"}
      [] variant = "array"     -> {"branch", "inc", "fn1", "boom"}
      [] variant = "list"      -> {"len", "at0", "at2", "lenat2"}
      [] variant = "sched"     -> {"show"}
      [] variant = "push"      -> {"push1", "push2", "len", "shift", "at0push"}
      [] variant = "object"    -> {"forin", "getfoo", "gettext"}
      [] variant = "proto"     -> {"childbar"}
      [] variant = "deep"      -> {"nested"}

\* Two effects that both read and write `count` call each other without end;
\* the script of part_002 registers the counting effect once, as its demo does.
Once == IF variant = "stack" THEN {"inc"} ELSE {}

Writes ==
    CASE variant = "branch"    -> {"ok"} \X {0, 1} \cup {"text"} \X {1, 2}
      [] variant = "stack"     -> {"foo", "bar"} \X {0, 1} \cup {"count"} \X {1, 7}
      [] variant = "computed7" -> {"foo", "bar"} \X {2, 3, 4} \cup {"count"} \X {1, 2}
      [] variant = "computed8" -> {"foo", "bar"} \X {2, 3} \cup {"ok", "count"} \X {0, 1}
      [] variant = "array"     -> {"ok", "foo"} \X {0, 1} \cup {"text", "bar"} \X {1, 2}
      [] variant = "watch"     -> {"foo"} \X {2, 3} \cup {"bar"} \X {1}
      [] variant = "list"      -> {"length"} \X {1, 3} \cup {"0", "2"} \X {1, 7} \cup {"4"} \X {100}
      [] variant = "sched"     -> {"count"} \X {2, 3}
      [] variant = "object"    -> {"foo", "text"} \X {2, 5, NaN}
      [] variant = "proto"     -> {"parent.bar"} \X {1, 5}
      [] variant = "source"    -> {"count", "foo", "bar"} \X {1, 2}

ReadKeys ==
    CASE variant = "branch" -> {"ok", "text"}
      [] variant = "array"  -> {"text", "bar"}
      [] OTHER              -> {}

InitialEffects ==
    CASE variant = "computed7" -> <<[fn |-> "sum", kind |-> "computed"]>>
      [] variant = "computed8" -> <<[fn |-> "sum", kind |-> "computed"],
                                    [fn |-> "pick", kind |-> "computed"]>>
      [] OTHER                 -> <<>>

ScriptComputeds == {InitialEffects[i].fn : i \in 1..Len(InitialEffects)}

\* The closure variables of a watch; cb names its callback, seed is the
\* value its first effectFn() returned (observation).
NoWatch == [oldValue |-> Undef, newValue |-> Undef, cleanup |-> None, cb |-> "", seed |-> Undef]

\* The raw objects of the wrapper program: the array `a`, whose elements are
\* the objects obj and obj2, and an object that is not an element.
ArrayElems == <<"obj", "obj2">>
Raws == {"a", "other"} \cup {ArrayElems[i] : i \in 1..Len(ArrayElems)}

\* The plain objects of the traverse program.  Each has two properties, whose
\* value is an object or a primitive (None); Graphs are all such heaps, with
\* cycles and shared objects among them.
Objects == {1, 2, 3}
NoGraph == [x \in Objects |-> <<None, None>>]
Graphs == [Objects -> (Objects \cup {None}) \X (Objects \cup {None})]

\* References the script passes around: to a raw object, or to a wrapper.
RawRef(x) == [raw |-> x, id |-> None]
ProxyRef(id) == [raw |-> "", id |-> id]

\* The instruction the running function is at, and the stack with that
\* function moved to its next statement.
cur == Top(callStack)
Running == callStack # <<>> /\ cur.kind = "fn" /\ cur.pc <= Len(Code(effects[cur.e].fn))
ins == Code(effects[cur.e].fn)[cur.pc]
Advance(acc) == [callStack EXCEPT ![Len(callStack)] = [@ EXCEPT !.pc = @ + 1, !.acc = acc]]

\* ------------------------------------------------------------ the engine
\* cleanup(effectFn): delete effectFn from every set in effectFn.deps.
\* (The caller empties effectFn.deps.)
cleanupNothing(bk, dp, e) == bk

cleanup(bk, dp, e) ==
    [k \in Keys |-> IF k \in Range(dp[e]) THEN Remove(bk[k], e) ELSE bk[k]]

\* `shouldTrack` as track reads it (part_004; the files without the variable
\* never set it).
trackingAlways == TRUE

tracking == shouldTrack

\* track(target, key): nothing without an active effect or with shouldTrack
\* false; else add the active effect to the key's set, and the set to
\* activeEffect.deps.
trackBuckets(bk, ae, k) ==
    IF ae = None \/ ~tracking THEN bk ELSE [bk EXCEPT ![k] = SetAdd(@, ae)]

trackDeps(dp, ae, k) ==
    IF ae = None \/ ~tracking THEN dp ELSE [dp EXCEPT ![ae] = Append(@, k)]

\* trigger of 3.branch-and-cleanup.ts: effectsToRun = new Set(effects).
effectsToRunAll(bk, ae, k) == bk[k]

\* trigger of the later files: effectsToRun holds the key's effects except
\* the active one.
effectsToRunUnguarded(bk, ae, k) == bk[k]

effectsToRunGuarded(bk, ae, k) == SelectSeq(bk[k], LAMBDA fn : fn # ae)

effectsToRun(bk, ae, k) ==
    IF variant = "branch" THEN effectsToRunAll(bk, ae, k) ELSE effectsToRunGuarded(bk, ae, k)

\* trigger(target, key): collect effectsToRun, then effectsToRun.forEach,
\* which runs as a new frame on stk.
trigger(k, stk) == Append(stk, RunFrame(effectsToRun(effectsBuckets, activeEffect, k)))

\* The set trap decides whether to call trigger: the plain proxies of the
\* early files always do, createReactive only when the value changed.
proxySetTriggers(old, new) == TRUE

reactiveSetTriggers(old, new) == old # new

setTriggers(old, new) ==
    IF variant \in {"array", "list", "push"} THEN reactiveSetTriggers(old, new) ELSE proxySetTriggers(old, new)

\* The body of effectFn up to the call of fn(): cleanup, activeEffect =
\* effectFn, effectStack.push(effectFn); fn() then runs as a new frame on stk.
\* bk and dp are the buckets and deps as the calling step left them.
effectFn(e, stk, bk, dp) ==
    /\ Len(stk) < MaxDepth
    /\ effectsBuckets' = cleanup(bk, dp, e)
    /\ deps' = [dp EXCEPT ![e] = <<>>]
    /\ activeEffect' = e
    /\ effectStack' = IF variant = "branch" THEN effectStack ELSE Append(effectStack, e)
    /\ callStack' = Append(stk, FnFrame(e, runs[e] + 1))
    /\ runs' = [runs EXCEPT ![e] = @ + 1]
    /\ reads' = [reads EXCEPT ![e] = {}]

\* The value activeEffect takes after fn() returned:
\* effectStack.pop(); activeEffect = effectStack[effectStack.length - 1].
\* 3.branch-and-cleanup.ts has no stack and leaves activeEffect as it is.
restoredStack == IF variant = "branch" THEN effectStack ELSE Pop(effectStack)

restoredActiveKept == activeEffect

restoredActive ==
    IF variant = "branch" THEN activeEffect
    ELSE IF restoredStack = <<>> THEN None ELSE Top(restoredStack)

\* effect(fn, options): create the effect function and, unless lazy, call it.
effect(b, stk) ==
    /\ Len(effects) < MaxEffects + Len(InitialEffects)
    /\ effects' = Append(effects, [fn |-> b, kind |-> "plain"])
    /\ effectFn(Len(effects) + 1, stk, effectsBuckets, deps)

\* The set trap's type for an array target:
\* Number(key) < target.length ? 'set' : 'add' (NaN < n is false).
typeAlwaysSet(data, k) == "set"

arrayType(data, k) == IF IsIndex(k) /\ Number(k) < data["length"] THEN "set" ELSE "add"

\* Reflect.set on the raw array: a write at an index at or past length
\* extends length; a write to length deletes the elements at or past it.
arrayWrite(data, k, v) ==
    IF k = "length"
    THEN [j \in Keys |-> IF j = "length" THEN v
                         ELSE IF IsIndex(j) /\ Number(j) >= v THEN Undef
                         ELSE data[j]]
    ELSE [data EXCEPT ![k] = v,
                      !["length"] = IF Number(k) >= @ THEN Number(k) + 1 ELSE @]

\* trigger's effectsToRun for an array target: the key's effects; for an ADD
\* the effects of `length`; for key `length` the effects of every key >=
\* newVal; each without the active effect, each once (a Set).  depsMap.forEach
\* visits the keys in the order of their first track; the effect functions
\* of the array programs only read, so the order among them does not change
\* which of them run, and the index keys are visited in ascending order.
\* No effect is ever tracked under ITERATE_KEY of an array (ownKeys tracks
\* `length`), so that part of trigger adds nothing.
truncatedNone(bk, ae, k, newVal, i) == <<>>

truncated(bk, ae, k, newVal, i) ==
    IF k = "length" /\ Number(Indices[i]) >= newVal
    THEN effectsToRunGuarded(bk, ae, Indices[i])
    ELSE <<>>

\* (effectsToRun is a Set: adding a member again changes nothing.)
UniqKept(s) == s

RECURSIVE Uniq(_)
Uniq(s) == IF s = <<>> THEN <<>> ELSE SetAdd(Uniq(Pop(s)), Top(s))

RECURSIVE truncatedFrom(_, _, _, _, _)
truncatedFrom(bk, ae, k, newVal, i) ==
    IF i > Len(Indices) THEN <<>>
    ELSE truncated(bk, ae, k, newVal, i) \o truncatedFrom(bk, ae, k, newVal, i + 1)

arrayEffectsToRun(bk, ae, k, type, newVal) ==
    Uniq(effectsToRunGuarded(bk, ae, k)
         \o (IF type = "add" THEN effectsToRunGuarded(bk, ae, "length") ELSE <<>>)
         \o truncatedFrom(bk, ae, k, newVal, 1))

\* The set trap of a reactive array.
arraySetTrap(k, v, stk) ==
    /\ originData' = arrayWrite(originData, k, v)
    /\ callStack' =
          IF setTriggers(originData[k], v)
          THEN Append(stk, RunFrame(arrayEffectsToRun(effectsBuckets, activeEffect, k,
                                                      arrayType(originData, k), v)))
          ELSE stk

\* Object.prototype.hasOwnProperty.call(target, key): a missing property
\* reads as undefined.
hadKeyAlways(data, k) == TRUE

hadKey(data, k) == data[k] # Undef

\* trigger's effectsToRun for a plain object target: the key's effects and,
\* for an ADD or a DELETE, those of ITERATE_KEY; each once, none the active one.
iterateEffectsNone(bk, ae, type) == <<>>

iterateEffects(bk, ae, type) ==
    IF type \in {"add", "delete"} THEN effectsToRunGuarded(bk, ae, "iterate") ELSE <<>>

objectEffectsToRun(bk, ae, k, type) ==
    Uniq(effectsToRunGuarded(bk, ae, k) \o iterateEffects(bk, ae, type))

\* The set trap's type for a plain object target:
\* hasOwnProperty.call(target, key) ? 'set' : 'add'.
objectType(data, k) == IF hadKey(data, k) THEN "set" ELSE "add"

\* The set trap's test before trigger:
\* oldValue !== newVal && (oldValue === oldValue || newVal === newVal).
strictNotEqual(a, b) == a # b \/ a = NaN \/ b = NaN

selfEqualAlways(a) == TRUE

selfEqual(a) == ~strictNotEqual(a, a)

objectSetTriggers(old, new) == strictNotEqual(old, new) /\ (selfEqual(old) \/ selfEqual(new))

\* The set trap of 13.object-proxy.ts.
objectSetTrap(k, v, stk) ==
    /\ originData' = [originData EXCEPT ![k] = v]
    /\ callStack' =
          IF objectSetTriggers(originData[k], v)
          THEN Append(stk, RunFrame(objectEffectsToRun(effectsBuckets, activeEffect, k,
                                                       objectType(originData, k))))
          ELSE stk

\* The type the set trap of the running program gives a write of key k.
setType(data, k) ==
    IF variant \in {"list", "push"} THEN arrayType(data, k) ELSE objectType(data, k)

\* The set trap: write the raw object, then trigger(target, key).
setTrap(k, v, stk) ==
    IF variant \in {"list", "push"} THEN arraySetTrap(k, v, stk)
    ELSE IF variant \in {"object", "proto", "deep"} THEN objectSetTrap(k, v, stk)
    ELSE /\ originData' = [originData EXCEPT ![k] = v]
         /\ callStack' = IF setTriggers(originData[k], v) THEN trigger(k, stk) ELSE stk

\* The wrappers createReactive makes of one target, by (isShallow, isReadonly).
ReadonlyKinds == {"readonly", "shallowReadonly"}

isReadonlyNever(w) == FALSE

isReadonly(w) == w \in ReadonlyKinds

\* The set trap of wrapper kind w: a read-only wrapper warns and returns
\* true; the others go on as setTrap.
wrapperSetTrap(w, k, v, stk) ==
    IF isReadonly(w)
    THEN originData' = originData /\ callStack' = stk
    ELSE setTrap(k, v, stk)

\* The deleteProperty trap of wrapper kind w: a read-only wrapper warns and
\* returns true; the others delete and trigger with type 'delete' when the
\* key was an own property.
deleteTrap(w, k, stk) ==
    IF isReadonly(w)
    THEN originData' = originData /\ callStack' = stk
    ELSE /\ originData' = [originData EXCEPT ![k] = Undef]
         /\ callStack' =
               IF hadKey(originData, k)
               THEN Append(stk, RunFrame(objectEffectsToRun(effectsBuckets, activeEffect,
                                                            k, "delete")))
               ELSE stk

\* computed: the scheduler sets dirty = true; `get value()` sets dirty = false
\* after it recomputed.
schedulerDirtyKept(dt, c) == dt

schedulerDirty(dt, c) == [dt EXCEPT ![c] = TRUE]

getterDirtyKept(dt, c) == dt

getterDirty(dt, c) == [dt EXCEPT ![c] = FALSE]

valueTrackedNever == FALSE

\* The computed of 8.computed-effect-trigger.ts tracks and triggers the key
\* 'value' of proxyData; the one of 7.computed.ts does neither.
valueTracked == variant = "computed8"

\* `get value()` of computed c, called with stk as the caller's stack.
\* Dirty: call effectFn() and go on in ValueDone.  Clean: track and return
\* cacheValue at once; `deliver` hands the result to the caller.
valueGetter(c, eff, stk) ==
    /\ dirty[c]
    /\ effectFn(eff, Append(stk, ValueFrame(c)), effectsBuckets, deps)
    /\ UNCHANGED <<originData, effects, dirty, cacheValue>>

valueCached(c) ==
    /\ ~dirty[c]
    /\ effectsBuckets' = (IF valueTracked THEN trackBuckets(effectsBuckets, activeEffect, "value")
                          ELSE effectsBuckets)
    /\ deps' = (IF valueTracked THEN trackDeps(deps, activeEffect, "value") ELSE deps)
    /\ UNCHANGED <<originData, effects, dirty, cacheValue, activeEffect, effectStack, runs>>

\* The effect function of computed c (created by computed(getter)).
effOf(c) == CHOOSE e \in 1..Len(effects) : effects[e].kind = "computed" /\ effects[e].fn = c

\* ------------------------------------------------- the history variables
Snap ==
    [data |-> originData, runs |-> runs, buckets |-> effectsBuckets,
     stack |-> effectStack, active |-> activeEffect, dirty |-> dirty,
     cache |-> cacheValue, n |-> Len(effects), calls |-> calls, timers |-> timers,
     held |-> held]

\* A top-level statement starts: only when nothing runs.
Start(op, k, v) ==
    /\ Idle
    /\ budget > 0
    /\ budget' = budget - 1
    /\ lastOp' = [op |-> op, k |-> k, v |-> v]
    /\ pre' = Snap
    /\ lastExit' = "none"

\* A step inside a running statement.
Step == UNCHANGED <<budget, lastOp, pre>>

\* The same for the statements and steps of the engine proper, which touch
\* no watch, no timer and no wrapper.
Begin(op, k, v) == Start(op, k, v) /\ UNCHANGED ext

Inner == Step /\ UNCHANGED ext

\* The keys read by the current run of effect e, with k added when the frame
\* that reads is that run.
readBy(f, k) ==
    IF f.run = runs[f.e] THEN [reads EXCEPT ![f.e] = @ \cup {k}] ELSE reads

\* options?.lazy of effect(fn, options).
lazyNever(opt) == FALSE

lazy(opt) == opt = "lazy"

\* effect(fn, options) of 7.computed.ts: create the effect function, call it
\* unless options.lazy, return it.
effectWith(b, opt, stk) ==
    /\ Len(effects) < MaxEffects + Len(InitialEffects)
    /\ effects' = Append(effects, [fn |-> b, kind |-> "plain"])
    /\ IF lazy(opt)
       THEN /\ callStack' = stk
            /\ UNCHANGED <<effectsBuckets, deps, activeEffect, effectStack, runs, reads>>
       ELSE effectFn(Len(effects) + 1, stk, effectsBuckets, deps)

\* --------------------------------------------- the script (top level)
\* h = effect(fn, { lazy: true }) in the script.
ScriptLazy(b) ==
    /\ Begin("lazy", b, 0)
    /\ b \in TopBodies
    /\ effectWith(b, "lazy", <<>>)
    /\ UNCHANGED <<variant, originData, dirty, cacheValue, logged, out>>

\* h() in the script, h a handle that effect(fn, { lazy: true }) returned.
ScriptCall(e) ==
    /\ Begin("call", effects[e].fn, e)
    /\ effects[e].kind = "plain"
    /\ effectFn(e, <<>>, effectsBuckets, deps)
    /\ UNCHANGED <<variant, originData, effects, dirty, cacheValue, logged, out>>

\* effect(fn) in the script.
ScriptEffect(b) ==
    /\ Begin("effect", b, 0)
    /\ b \in TopBodies
    /\ b \in Once => \A i \in 1..Len(effects) : effects[i].fn # b
    /\ effect(b, <<>>)
    /\ UNCHANGED <<variant, originData, dirty, cacheValue, logged, out>>

\* proxy[k] = v in the script.
ScriptSet(k, v) ==
    /\ Begin("set", k, v)
    /\ <<k, v>> \in Writes
    /\ setTrap(k, v, <<>>)
    /\ UNCHANGED <<variant, effectsBuckets, effects, deps, activeEffect, effectStack,
                   dirty, cacheValue, runs, reads, logged, out>>

\* proxy[k] read in the script: the get trap tracks, then returns the value.
ScriptGet(k) ==
    /\ Begin("get", k, 0)
    /\ k \in ReadKeys
    /\ effectsBuckets' = trackBuckets(effectsBuckets, activeEffect, k)
    /\ deps' = trackDeps(deps, activeEffect, k)
    /\ out' = originData[k]
    /\ UNCHANGED <<variant, originData, effects, activeEffect, effectStack, dirty,
                   cacheValue, callStack, runs, reads, logged>>

\* The writes and deletes the script of the object program makes through
\* read-only wrappers, and the deletes it makes through the mutable wrapper.
ReadonlyWrites == {<<"text", 3>>}
ReadonlyDeletes == {"foo"}
Deletes == IF variant = "object" THEN {"foo", "text"} ELSE {"bar"}

\* wrapper[k] = v in the script, wrapper = readonly(obj) or shallowReadonly(obj).
ScriptReadonlySet(w, k, v) ==
    /\ Begin(w, k, v)
    /\ <<k, v>> \in ReadonlyWrites
    /\ wrapperSetTrap(w, k, v, <<>>)
    /\ out' = 1
    /\ UNCHANGED <<variant, effectsBuckets, effects, deps, activeEffect, effectStack,
                   dirty, cacheValue, runs, reads, logged>>

\* delete wrapper[k] in the script, through any wrapper kind.
ScriptDelete(w, k) ==
    /\ Begin(w, k, Undef)
    /\ k \in (IF isReadonly(w) THEN ReadonlyDeletes ELSE Deletes)
    /\ deleteTrap(w, k, <<>>)
    /\ out' = 1
    /\ UNCHANGED <<variant, effectsBuckets, effects, deps, activeEffect, effectStack,
                   dirty, cacheValue, runs, reads, logged>>

\* c.value read in the script.
ScriptValue(c) ==
    /\ Begin("value", c, 0)
    /\ c \in ScriptComputeds
    /\ \/ valueGetter(c, effOf(c), <<>>) /\ out' = out
       \/ valueCached(c) /\ out' = cacheValue[c] /\ UNCHANGED <<callStack, reads>>
    /\ UNCHANGED <<variant, logged>>

\* ------------------------------------- statements of an effect function
\* acc = proxy[k], or acc + proxy[k]: the get trap.
Get ==
    /\ Running
    /\ ins.op \in {"get", "add"}
    /\ LET v == originData[ins.k]
       IN  callStack' = Advance(IF ins.op = "get" THEN v ELSE cur.acc + v)
    /\ effectsBuckets' = trackBuckets(effectsBuckets, activeEffect, ins.k)
    /\ deps' = trackDeps(deps, activeEffect, ins.k)
    /\ reads' = readBy(cur, ins.k)
    /\ Inner
    /\ UNCHANGED <<variant, originData, effects, activeEffect, effectStack, dirty,
                   cacheValue, runs, logged, out, lastExit>>

\* proxy[k] = n, or acc + n: the set trap.
Set ==
    /\ Running
    /\ ins.op \in {"put", "set"}
    /\ setTrap(ins.k, IF ins.op = "put" THEN cur.acc + ins.n ELSE ins.n, Advance(cur.acc))
    /\ Inner
    /\ UNCHANGED <<variant, effectsBuckets, effects, deps, activeEffect, effectStack,
                   dirty, cacheValue, runs, reads, logged, out, lastExit>>

\* for (const key in proxy): the ownKeys trap tracks ITERATE_KEY.
ForIn ==
    /\ Running
    /\ ins.op = "forin"
    /\ callStack' = Advance(cur.acc)
    /\ effectsBuckets' = trackBuckets(effectsBuckets, activeEffect, "iterate")
    /\ deps' = trackDeps(deps, activeEffect, "iterate")
    /\ Inner
    /\ UNCHANGED <<variant, originData, effects, activeEffect, effectStack, dirty,
                   cacheValue, runs, reads, logged, out, lastExit>>

\* cond ? ... : ... on the value just read.
Jz ==
    /\ Running
    /\ ins.op = "jz"
    /\ callStack' = [callStack EXCEPT ![Len(callStack)] =
                        [@ EXCEPT !.pc = IF cur.acc \in {0, Undef} THEN ins.n ELSE @ + 1]]
    /\ Inner
    /\ UNCHANGED <<variant, originData, effectsBuckets, effects, deps, activeEffect,
                   effectStack, dirty, cacheValue, runs, reads, logged, out, lastExit>>

\* effect(fn2) inside an effect function.
NestedEffect ==
    /\ Running
    /\ ins.op = "effect"
    /\ effect(ins.k, Advance(cur.acc))
    /\ Inner
    /\ UNCHANGED <<variant, originData, dirty, cacheValue, logged, out, lastExit>>

\* The user function throws.  No function of the engine catches: the
\* exception leaves every effectFn and every trigger on the call stack
\* without running the statements after their calls, and reaches the script.
Throw ==
    /\ Running
    /\ ins.op = "throw"
    /\ callStack' = <<>>
    /\ lastExit' = "throw"
    /\ Inner
    /\ UNCHANGED <<variant, originData, effectsBuckets, effects, deps, activeEffect,
                   effectStack, dirty, cacheValue, runs, reads, logged, out>>

\* acc = c.value inside an effect function.
Value ==
    /\ Running
    /\ ins.op = "value"
    /\ \/ valueGetter(ins.k, effOf(ins.k), Advance(cur.acc))
       \/ /\ valueCached(ins.k)
          /\ callStack' = Advance(cacheValue[ins.k])
          /\ reads' = IF valueTracked THEN readBy(cur, "value") ELSE reads
    /\ Inner
    /\ UNCHANGED <<variant, logged, out, lastExit>>

\* fn() returned: effectStack.pop(), activeEffect = the new top, return res
\* (to the script, when the script called the effect function).
Return ==
    /\ callStack # <<>>
    /\ cur.kind = "fn"
    /\ cur.pc > Len(Code(effects[cur.e].fn))
    /\ effectStack' = restoredStack
    /\ activeEffect' = restoredActive
    /\ logged' = [logged EXCEPT ![cur.e] = cur.acc]
    /\ LET stk == Pop(callStack)
       IN  callStack' = IF stk # <<>> /\ Top(stk).kind \in {"value", "job", "seed"}
                        THEN [stk EXCEPT ![Len(stk)] = [@ EXCEPT !.acc = cur.acc]]
                        ELSE stk
    /\ Inner
    /\ out' = IF Pop(callStack) = <<>> /\ lastOp.op = "call" THEN cur.acc ELSE out
    /\ UNCHANGED <<variant, originData, effectsBuckets, effects, deps, dirty, cacheValue,
                   runs, reads, lastExit>>

\* ------------------------------------------ trigger's effectsToRun.forEach
rest == [callStack EXCEPT ![Len(callStack)] = [@ EXCEPT !.todo = Tail(@)]]

\* fn?.options?.scheduler: does the effect function carry a scheduler?
hasSchedulerNever(e) == FALSE

hasScheduler(e) == effects[e].kind # "plain"

\* The next effect has no scheduler: fn().
RunNext ==
    /\ callStack # <<>>
    /\ cur.kind = "run"
    /\ cur.todo # <<>>
    /\ ~hasScheduler(Head(cur.todo))
    /\ effectFn(Head(cur.todo), rest, effectsBuckets, deps)
    /\ Inner
    /\ UNCHANGED <<variant, originData, effects, dirty, cacheValue, logged, out, lastExit>>

\* The next effect is a computed's: fn.options.scheduler(fn), which sets
\* dirty and (8.computed-effect-trigger.ts) calls trigger(proxyData, 'value').
RunScheduler ==
    /\ callStack # <<>>
    /\ cur.kind = "run"
    /\ cur.todo # <<>>
    /\ effects[Head(cur.todo)].kind = "computed"
    /\ dirty' = schedulerDirty(dirty, effects[Head(cur.todo)].fn)
    /\ callStack' = IF valueTracked THEN trigger("value", rest) ELSE rest
    /\ Inner
    /\ UNCHANGED <<variant, originData, effectsBuckets, effects, deps, activeEffect,
                   effectStack, cacheValue, runs, reads, logged, out, lastExit>>

\* The next effect has the scheduler of part_001's demo:
\* fn.options.scheduler(fn), which is setTimeout(fn).
RunDefer ==
    /\ callStack # <<>>
    /\ cur.kind = "run"
    /\ cur.todo # <<>>
    /\ hasScheduler(Head(cur.todo))
    /\ effects[Head(cur.todo)].kind = "deferred"
    /\ timers' = Append(timers, Head(cur.todo))
    /\ callStack' = rest
    /\ Step
    /\ UNCHANGED <<variant, originData, effectsBuckets, effects, deps, activeEffect,
                   effectStack, dirty, cacheValue, runs, reads, logged, out, lastExit>>
    /\ UNCHANGED <<trace, watchVars, heapVars, arrayVars, graphVars>>

\* forEach is through: trigger returns.
RunDone ==
    /\ callStack # <<>>
    /\ cur.kind = "run"
    /\ cur.todo = <<>>
    /\ callStack' = Pop(callStack)
    /\ Inner
    /\ UNCHANGED <<variant, originData, effectsBuckets, effects, deps, activeEffect,
                   effectStack, dirty, cacheValue, runs, reads, logged, out, lastExit>>

\* `get value()` after effectFn() returned: cacheValue = res, dirty = false,
\* track(proxyData, 'value') (8.computed-effect-trigger.ts), return cacheValue.
ValueDone ==
    /\ callStack # <<>>
    /\ cur.kind = "value"
    /\ cacheValue' = [cacheValue EXCEPT ![cur.c] = cur.acc]
    /\ dirty' = getterDirty(dirty, cur.c)
    /\ effectsBuckets' = (IF valueTracked THEN trackBuckets(effectsBuckets, activeEffect, "value")
                          ELSE effectsBuckets)
    /\ deps' = (IF valueTracked THEN trackDeps(deps, activeEffect, "value") ELSE deps)
    /\ LET stk == Pop(callStack)
       IN  IF stk = <<>>
           THEN callStack' = stk /\ out' = cur.acc /\ reads' = reads
           ELSE /\ callStack' = [stk EXCEPT ![Len(stk)] = [@ EXCEPT !.acc = cur.acc]]
                /\ out' = out
                /\ reads' = IF valueTracked THEN readBy(Top(stk), "value") ELSE reads
    /\ Inner
    /\ UNCHANGED <<variant, originData, effects, activeEffect, effectStack, runs, logged,
                   lastExit>>

\* ------------------------------------------------------------------ watch
\* The callbacks the script passes to watch:
\*   "log"    (newValue, oldValue) => console.log(newValue, oldValue)
\*   "bump"   (newValue) => { if (newValue < 3) proxyData.foo = newValue + 1 }
\*   "fetch"  the asynchronous callback of the onInvalidate demo
\*   "some"   (newValue, oldValue, onInvalidate) =>
\*                { if (newValue < 3) onInvalidate(() => {}) }
CbKinds == {"log", "bump", "fetch", "some"}

\* The watches (effect functions made by watch), and the invocations of the
\* callback of watch w, oldest first.
Watches == {e \in 1..Len(effects) : effects[e].kind = "watch"}
CallIds(cs, w) == {i \in 1..Len(cs) : cs[i].w = w}
CallsOf(cs, w) == SelectSeq(cs, LAMBDA c : c.w = w)

\* Whether the writing callback writes: newValue < 3.
bumps(new) == new < 3

\* What fakeFetch resolves to for callback invocation i: some number; the
\* invocation's own index keeps the results apart.
Res(i) == i

\* watch: the first thing it does with effectFn, job() if immediate, else
\* oldValue = effectFn().
firstFrameSeed(e, imm) == SeedFrame(e)

firstFrameJob(e, imm) == JobFrame(e)

firstFrame(e, imm) == IF imm THEN JobFrame(e) ELSE SeedFrame(e)

\* job: cleanup?.() runs the hook registered last, which sets the `expired`
\* flag of the invocation that registered it.
invalidatedNever(exp, c) == exp

invalidated(exp, c) == IF c # None THEN exp \cup {c} ELSE exp

\* Whether the callback cb, invoked with newValue new, calls onInvalidate.
registers(cb, new) == cb = "fetch" \/ (cb = "some" /\ new < 3)

\* The closure variable `cleanup` after callback invocation id ran its
\* synchronous part: onInvalidate(fn) assigns it (a hook is named by the
\* invocation that registered it).
onInvalidateKept(cl, cb, new, id) == cl

onInvalidate(cl, cb, new, id) == IF registers(cb, new) THEN id ELSE cl

\* watch(() => proxyData.foo, cb, {immediate}) in the script.
ScriptWatch(cb, imm) ==
    /\ Start("watch", cb, IF imm THEN 1 ELSE 0)
    /\ Len(effects) < MaxWatches
    /\ effects' = Append(effects, [fn |-> "getfoo", kind |-> "watch"])
    /\ watcher' = [watcher EXCEPT ![Len(effects) + 1] = [NoWatch EXCEPT !.cb = cb]]
    /\ effectFn(Len(effects) + 1, <<firstFrame(Len(effects) + 1, imm)>>, effectsBuckets, deps)
    /\ UNCHANGED <<variant, originData, dirty, cacheValue, logged, out>>
    /\ UNCHANGED <<calls, inflight, expired, finalData, applied, timerVars, heapVars, arrayVars, graphVars>>

\* trigger's forEach: the next effect is a watch's: fn.options.scheduler(fn)
\* is job(), which starts with newValue = effectFn().
RunJob ==
    /\ callStack # <<>>
    /\ cur.kind = "run"
    /\ cur.todo # <<>>
    /\ effects[Head(cur.todo)].kind = "watch"
    /\ effectFn(Head(cur.todo), Append(rest, JobFrame(Head(cur.todo))), effectsBuckets, deps)
    /\ Inner
    /\ UNCHANGED <<variant, originData, effects, dirty, cacheValue, logged, out, lastExit>>

\* job after effectFn() returned: newValue = res; cleanup?.() (the call
\* record notes as `hook` which hook that invoked, None if none); then
\* cb(newValue, oldValue, onInvalidate) is called and runs up to its first
\* call into the engine (the writing callback) or to its end.
JobCall ==
    /\ callStack # <<>>
    /\ cur.kind = "job"
    /\ cur.pc = 1
    /\ LET w   == cur.e
           new == cur.acc
           id  == Len(calls) + 1
           stk == [callStack EXCEPT ![Len(callStack)] = [@ EXCEPT !.pc = 2]]
       IN  /\ expired' = invalidated(expired, watcher[w].cleanup)
           /\ calls' = Append(calls, [w |-> w, new |-> new, old |-> watcher[w].oldValue,
                                      hook |-> watcher[w].cleanup])
           /\ watcher' = [watcher EXCEPT ![w] =
                             [@ EXCEPT !.newValue = new,
                                       !.cleanup = onInvalidate(@, watcher[w].cb, new, id)]]
           /\ inflight' = IF watcher[w].cb = "fetch" THEN inflight \cup {id} ELSE inflight
           /\ IF watcher[w].cb = "bump" /\ bumps(new)
              THEN setTrap("foo", new + 1, stk)
              ELSE callStack' = stk /\ originData' = originData
    /\ Step
    /\ UNCHANGED <<variant, effectsBuckets, effects, deps, activeEffect, effectStack, dirty,
                   cacheValue, runs, reads, logged, out, lastExit>>
    /\ UNCHANGED <<finalData, applied, timerVars, heapVars, arrayVars, graphVars>>

\* job after cb returned: oldValue = newValue.
JobDone ==
    /\ callStack # <<>>
    /\ cur.kind = "job"
    /\ cur.pc = 2
    /\ watcher' = [watcher EXCEPT ![cur.e] = [@ EXCEPT !.oldValue = watcher[cur.e].newValue]]
    /\ callStack' = Pop(callStack)
    /\ Step
    /\ UNCHANGED <<variant, originData, effectsBuckets, effects, deps, activeEffect,
                   effectStack, dirty, cacheValue, runs, reads, logged, out, lastExit>>
    /\ UNCHANGED <<calls, inflight, expired, finalData, applied, timerVars, heapVars, arrayVars, graphVars>>

\* watch without immediate, after effectFn() returned: oldValue = res.
SeedDone ==
    /\ callStack # <<>>
    /\ cur.kind = "seed"
    /\ watcher' = [watcher EXCEPT ![cur.e] = [@ EXCEPT !.oldValue = cur.acc, !.seed = cur.acc]]
    /\ callStack' = Pop(callStack)
    /\ Step
    /\ UNCHANGED <<variant, originData, effectsBuckets, effects, deps, activeEffect,
                   effectStack, dirty, cacheValue, runs, reads, logged, out, lastExit>>
    /\ UNCHANGED <<calls, inflight, expired, finalData, applied, timerVars, heapVars, arrayVars, graphVars>>

\* The fetch of callback invocation i resolves (at any time between two
\* statements): `if (!expired) finalData = res`.
Resolve(i) ==
    /\ Idle
    /\ i \in inflight
    /\ inflight' = inflight \ {i}
    /\ LET w == calls[i].w
       IN  IF i \in expired
           THEN UNCHANGED <<finalData, applied>>
           ELSE /\ finalData' = [finalData EXCEPT ![w] = Res(i)]
                /\ applied' = [applied EXCEPT ![w] = Append(@, i)]
    /\ lastOp' = [op |-> "resolve", k |-> "", v |-> i]
    /\ pre' = Snap
    /\ lastExit' = "none"
    /\ UNCHANGED <<prog, budget, runs, reads, logged, out>>
    /\ UNCHANGED <<watcher, calls, expired, timerVars, heapVars, arrayVars, graphVars>>

\* ---------------------------------------------------------------- traverse
\* seen.has(source)
seenHasNever(sn, x) == FALSE

seenHas(sn, x) == x \in sn

\* traverse(root) in the script, on a fresh `seen`.
ScriptTraverse(root) ==
    /\ Start("traverse", "", root)
    /\ lastOp.op = "none"
    /\ callStack' = <<TraverseFrame(root)>>
    /\ seen' = {}
    /\ UNCHANGED <<variant, originData, effectsBuckets, effects, deps, activeEffect,
                   effectStack, dirty, cacheValue, runs, reads, logged, out>>
    /\ UNCHANGED <<graph, visits, watchVars, timerVars, heapVars, arrayVars>>

\* traverse was called: return at once for a primitive and for an object in
\* seen; else seen.add(source) and start for (const key in source).
TraverseEnter ==
    /\ callStack # <<>>
    /\ cur.kind = "traverse"
    /\ cur.pc = 0
    /\ IF cur.e = None \/ seenHas(seen, cur.e)
       THEN /\ callStack' = Pop(callStack)
            /\ UNCHANGED <<seen, visits>>
       ELSE /\ seen' = seen \cup {cur.e}
            /\ visits' = [visits EXCEPT ![cur.e] = @ + 1]
            /\ callStack' = Advance(cur.acc)
    /\ Step
    /\ UNCHANGED <<variant, originData, effectsBuckets, effects, deps, activeEffect,
                   effectStack, dirty, cacheValue, runs, reads, logged, out, lastExit>>
    /\ UNCHANGED <<graph, watchVars, timerVars, heapVars, arrayVars>>

\* The loop body: traverse(source[key], seen) for the next key.
TraverseNext ==
    /\ callStack # <<>>
    /\ cur.kind = "traverse"
    /\ cur.pc > 0
    /\ cur.pc <= Len(graph[cur.e])
    /\ callStack' = Append(Advance(cur.acc), TraverseFrame(graph[cur.e][cur.pc]))
    /\ Step
    /\ UNCHANGED <<variant, originData, effectsBuckets, effects, deps, activeEffect,
                   effectStack, dirty, cacheValue, runs, reads, logged, out, lastExit>>
    /\ UNCHANGED <<ext>>

\* The loop is through: return source.
TraverseReturn ==
    /\ callStack # <<>>
    /\ cur.kind = "traverse"
    /\ cur.pc > 0
    /\ cur.pc > Len(graph[cur.e])
    /\ callStack' = Pop(callStack)
    /\ Step
    /\ UNCHANGED <<variant, originData, effectsBuckets, effects, deps, activeEffect,
                   effectStack, dirty, cacheValue, runs, reads, logged, out, lastExit>>
    /\ UNCHANGED <<ext>>

\* --------------------------------------------- watch on a reactive object
\* for (const key in source): the own keys of originData, in creation order.
ObjectKeys == <<"count", "foo", "bar">>

sourceKeysNone(data) == <<>>

sourceKeys(data) == SelectSeq(ObjectKeys, LAMBDA k : hadKey(data, k))

\* track(target, key) for each key of ks in turn.
RECURSIVE trackAllBuckets(_, _, _)
trackAllBuckets(bk, ae, ks) ==
    IF ks = <<>> THEN bk ELSE trackAllBuckets(trackBuckets(bk, ae, Head(ks)), ae, Tail(ks))

RECURSIVE trackAllDeps(_, _, _)
trackAllDeps(dp, ae, ks) ==
    IF ks = <<>> THEN dp ELSE trackAllDeps(trackDeps(dp, ae, Head(ks)), ae, Tail(ks))

\* The getter () => traverse(source): source[key] is read through the get
\* trap for every key (the values are primitives, for which traverse
\* returns at once); the result is source itself.
Traverse ==
    /\ Running
    /\ ins.op = "traverse"
    /\ effectsBuckets' = trackAllBuckets(effectsBuckets, activeEffect, sourceKeys(originData))
    /\ deps' = trackAllDeps(deps, activeEffect, sourceKeys(originData))
    /\ reads' = IF cur.run = runs[cur.e]
                THEN [reads EXCEPT ![cur.e] = @ \cup Range(sourceKeys(originData))]
                ELSE reads
    /\ callStack' = Advance(ProxyData)
    /\ Inner
    /\ UNCHANGED <<variant, originData, effects, activeEffect, effectStack, dirty,
                   cacheValue, runs, logged, out, lastExit>>

\* watch(proxyData, cb, {immediate}) in the script.
ScriptWatchSource(cb, imm) ==
    /\ Start("watch", cb, IF imm THEN 1 ELSE 0)
    /\ Len(effects) < MaxWatches
    /\ effects' = Append(effects, [fn |-> "traverse", kind |-> "watch"])
    /\ watcher' = [watcher EXCEPT ![Len(effects) + 1] = [NoWatch EXCEPT !.cb = cb]]
    /\ effectFn(Len(effects) + 1, <<firstFrame(Len(effects) + 1, imm)>>, effectsBuckets, deps)
    /\ UNCHANGED <<variant, originData, dirty, cacheValue, logged, out>>
    /\ UNCHANGED <<calls, inflight, expired, finalData, applied, timerVars, heapVars, arrayVars, graphVars>>

\* ------------------------------------------------ deep and shallow wrappers
\* obj = { foo: { aaa: 5 } }; the wrappers of obj by (isShallow, isReadonly).
WrapperKinds == {"reactive", "shallowReactive", "readonly", "shallowReadonly"}

isShallow(w) == w \in {"shallowReactive", "shallowReadonly"}

\* What the get trap of a wrapper of kind w returns for an object-valued
\* property: the raw object if isShallow, else readonly(res) or reactive(res).
nestedKindRaw(w) == "raw"

nestedKind(w) ==
    IF isShallow(w) THEN "raw" ELSE IF isReadonly(w) THEN "readonly" ELSE "reactive"

\* acc = reactive(obj).foo.aaa inside an effect function: both get traps track.
GetNested ==
    /\ Running
    /\ ins.op = "getnested"
    /\ effectsBuckets' = trackBuckets(trackBuckets(effectsBuckets, activeEffect, "foo"),
                                      activeEffect, ins.k)
    /\ deps' = trackDeps(trackDeps(deps, activeEffect, "foo"), activeEffect, ins.k)
    /\ callStack' = Advance(originData[ins.k])
    /\ reads' = readBy(cur, ins.k)
    /\ Inner
    /\ UNCHANGED <<variant, originData, effects, activeEffect, effectStack, dirty,
                   cacheValue, runs, logged, out, lastExit>>

\* wrapper.foo.aaa = v in the script, wrapper of kind w: the get trap of the
\* wrapper (which tracks unless read-only) returns the object to write to;
\* a raw object is written directly, a wrapper through its set trap.
ScriptSetNested(w, v) ==
    /\ Begin("nested", w, v)
    /\ effectsBuckets' = IF isReadonly(w) THEN effectsBuckets
                         ELSE trackBuckets(effectsBuckets, activeEffect, "foo")
    /\ deps' = IF isReadonly(w) THEN deps ELSE trackDeps(deps, activeEffect, "foo")
    /\ IF nestedKind(w) = "raw"
       THEN originData' = [originData EXCEPT !["foo.aaa"] = v] /\ callStack' = <<>>
       ELSE wrapperSetTrap(nestedKind(w), "foo.aaa", v, <<>>)
    /\ out' = 1
    /\ UNCHANGED <<variant, effects, activeEffect, effectStack, dirty, cacheValue,
                   runs, reads, logged>>

\* ------------------------------------------------------- prototype chain
\* proxyChild = reactive({}), proxyParent = reactive({bar: 1}),
\* Object.setPrototypeOf(proxyChild, proxyParent).  The child's own bar is
\* originData["bar"], the parent's is originData["parent.bar"].
\* `target === receiver[RAW_KEY]`, the receiver being proxyChild.
sameRawAlways(target) == TRUE

sameRaw(target) == target = "child"

\* originChild[key]: the own value, else the value found on the prototype
\* (through the parent's get trap).
inherited(data, k) == IF hadKey(data, k) THEN data[k] ELSE data["parent.bar"]

\* acc = proxyChild.bar inside an effect function: the child's get trap
\* tracks (child, bar); Reflect.get finds an own property, or goes on to the
\* prototype, whose get trap tracks (parent, bar).
GetChild ==
    /\ Running
    /\ ins.op = "getchild"
    /\ LET own == hadKey(originData, ins.k)
           bk1 == trackBuckets(effectsBuckets, activeEffect, ins.k)
           dp1 == trackDeps(deps, activeEffect, ins.k)
       IN  /\ effectsBuckets' = IF own THEN bk1 ELSE trackBuckets(bk1, activeEffect, "parent.bar")
           /\ deps' = IF own THEN dp1 ELSE trackDeps(dp1, activeEffect, "parent.bar")
           /\ callStack' = Advance(inherited(originData, ins.k))
    /\ reads' = readBy(cur, ins.k)
    /\ Inner
    /\ UNCHANGED <<variant, originData, effects, activeEffect, effectStack, dirty,
                   cacheValue, runs, logged, out, lastExit>>

\* proxyChild.bar = v in the script.  The child's set trap reads oldValue
\* (through the prototype if the child has no own bar; the parent's get trap
\* tracks nothing, no effect being active), computes type and calls
\* Reflect.set(target, key, newVal, receiver).  With an own bar that writes
\* the child.  Without, it calls the parent's set trap with the same
\* receiver, whose Reflect.set defines bar on the receiver's target, the
\* child, and which triggers the parent's subscribers only if its target is
\* the receiver's raw object.
ScriptSetChild(v) ==
    /\ Begin("setchild", "bar", v)
    /\ activeEffect = None
    /\ originData' = [originData EXCEPT !["bar"] = v]
    /\ LET frame == SetFrame(inherited(originData, "bar"), objectType(originData, "bar"), v)
       IN  callStack' =
              IF /\ ~hadKey(originData, "bar")
                 /\ sameRaw("parent")
                 /\ objectSetTriggers(originData["parent.bar"], v)
              THEN <<frame, RunFrame(objectEffectsToRun(effectsBuckets, activeEffect,
                                                        "parent.bar", "set"))>>
              ELSE <<frame>>
    /\ UNCHANGED <<variant, effectsBuckets, effects, deps, activeEffect, effectStack,
                   dirty, cacheValue, runs, reads, logged, out>>

\* Reflect.set returned to the child's set trap: if its target is the
\* receiver's raw object and the value changed, trigger(target, key, type).
SetDone ==
    /\ callStack # <<>>
    /\ cur.kind = "set"
    /\ callStack' =
          IF sameRaw("child") /\ objectSetTriggers(cur.acc, cur.todo[1])
          THEN Append(Pop(callStack),
                      RunFrame(objectEffectsToRun(effectsBuckets, activeEffect, "bar", cur.c)))
          ELSE Pop(callStack)
    /\ Inner
    /\ UNCHANGED <<variant, originData, effectsBuckets, effects, deps, activeEffect,
                   effectStack, dirty, cacheValue, runs, reads, logged, out, lastExit>>

\* ---------------------------------------------------------- array methods
\* String(n) for an index.
String(n) == Indices[n + 1]

\* The steps Array.prototype.push and Array.prototype.shift take on `this`
\* (the wrapper), as the operations they perform on it: Get and Set go to the
\* get and set traps, DeleteProperty to the deleteProperty trap, HasProperty
\* to the raw array (the wrapper has no `has` trap).
\*   push(v):  len = this.length; this[len] = v; this.length = len + 1
\*   shift():  len = this.length; if (len == 0) { this.length = 0; return }
\*             first = this[0];
\*             for k in 1..len-1: if (k in this) this[k-1] = this[k]
\*                                else delete this[k-1]
\*             delete this[len-1]; this.length = len - 1; return first
MOp(op, k, v, skip) == [op |-> op, k |-> k, v |-> v, skip |-> skip]

MethodOp(f) ==
    LET len == f.run
        k == (f.pc - 1) \div 2
    IN  IF f.pc = 1 THEN MOp("get", "length", 0, 1)
        ELSE IF f.c = "push"
        THEN CASE f.pc = 2 -> MOp("set", String(len), f.todo[1], 1)
               [] f.pc = 3 -> MOp("set", "length", len + 1, 1)
               [] OTHER    -> MOp("ret", "", 0, 0)
        ELSE IF len = 0
        THEN CASE f.pc = 2 -> MOp("set", "length", 0, 1)
               [] OTHER    -> MOp("ret", "", 0, 0)
        ELSE CASE f.pc = 2 -> MOp("get", "0", 0, 1)
               [] f.pc \in 3..(2 * len) /\ f.pc % 2 = 1 ->
                     IF hadKey(originData, String(k)) THEN MOp("get", String(k), 0, 1)
                     ELSE MOp("delete", String(k - 1), 0, 2)
               [] f.pc \in 3..(2 * len) /\ f.pc % 2 = 0 ->
                     MOp("set", String(k - 1), f.acc, 1)
               [] f.pc = 2 * len + 1 -> MOp("delete", String(len - 1), 0, 1)
               [] f.pc = 2 * len + 2 -> MOp("set", "length", len - 1, 1)
               [] OTHER -> MOp("ret", "", 0, 0)

InMethod == callStack # <<>> /\ cur.kind = "method"
mop == MethodOp(cur)

\* The call stack with the running method moved on by its step.
Moved == [callStack EXCEPT ![Len(callStack)] = [@ EXCEPT !.pc = @ + mop.skip]]

\* The overridden method is called: shouldTrack = false, then
\* originMethod.apply(this, args).  (The array of the model has room for
\* Len(Indices) elements.)
startMethod(c, e, args, stk) ==
    /\ Len(stk) < MaxDepth
    /\ c = "push" => originData["length"] < Len(Indices)
    /\ shouldTrack' = FALSE
    /\ callStack' = Append(stk, MethodFrame(c, e, args))

\* arr.push(n) / arr.shift() inside an effect function.
MethodCall ==
    /\ Running
    /\ ins.op \in {"push", "shift"}
    /\ startMethod(ins.op, cur.e, <<ins.n>>, Advance(cur.acc))
    /\ Step
    /\ UNCHANGED <<variant, originData, effectsBuckets, effects, deps, activeEffect,
                   effectStack, dirty, cacheValue, runs, reads, logged, out, lastExit>>
    /\ UNCHANGED <<watchVars, timerVars, heapVars, graphVars>>

\* arr.push(v) in the script.
ScriptPush(v) ==
    /\ Start("push", "", v)
    /\ startMethod("push", None, <<v>>, <<>>)
    /\ UNCHANGED <<variant, originData, effectsBuckets, effects, deps, activeEffect,
                   effectStack, dirty, cacheValue, runs, reads, logged, out>>
    /\ UNCHANGED <<watchVars, timerVars, heapVars, graphVars>>

\* The method reads this[k]: the get trap tracks and returns the value; the
\* first read is `length`, kept in len.
MethodGet ==
    /\ InMethod
    /\ mop.op = "get"
    /\ effectsBuckets' = trackBuckets(effectsBuckets, activeEffect, mop.k)
    /\ deps' = trackDeps(deps, activeEffect, mop.k)
    /\ callStack' = [callStack EXCEPT ![Len(callStack)] =
                        IF mop.k = "length"
                        THEN [@ EXCEPT !.pc = @ + 1, !.run = originData["length"]]
                        ELSE [@ EXCEPT !.pc = @ + 1, !.acc = originData[mop.k]]]
    /\ Inner
    /\ UNCHANGED <<variant, originData, effects, activeEffect, effectStack, dirty,
                   cacheValue, runs, reads, logged, out, lastExit>>

\* The method writes this[k] = v: the set trap.
MethodSet ==
    /\ InMethod
    /\ mop.op = "set"
    /\ arraySetTrap(mop.k, mop.v, Moved)
    /\ Inner
    /\ UNCHANGED <<variant, effectsBuckets, effects, deps, activeEffect, effectStack,
                   dirty, cacheValue, runs, reads, logged, out, lastExit>>

\* The method deletes this[k]: the deleteProperty trap, which triggers with
\* type 'delete' when the key was an own property.
MethodDelete ==
    /\ InMethod
    /\ mop.op = "delete"
    /\ originData' = [originData EXCEPT ![mop.k] = Undef]
    /\ callStack' =
          IF hadKey(originData, mop.k)
          THEN Append(Moved, RunFrame(arrayEffectsToRun(effectsBuckets, activeEffect, mop.k,
                                                        "delete", Undef)))
          ELSE Moved
    /\ Inner
    /\ UNCHANGED <<variant, effectsBuckets, effects, deps, activeEffect, effectStack,
                   dirty, cacheValue, runs, reads, logged, out, lastExit>>

\* originMethod returned: shouldTrack = true, return res.
MethodReturn ==
    /\ InMethod
    /\ mop.op = "ret"
    /\ shouldTrack' = TRUE
    /\ callStack' = Pop(callStack)
    /\ Step
    /\ UNCHANGED <<variant, originData, effectsBuckets, effects, deps, activeEffect,
                   effectStack, dirty, cacheValue, runs, reads, logged, out, lastExit>>
    /\ UNCHANGED <<watchVars, timerVars, heapVars, graphVars>>

\* ----------------------------------------------------------------- timers
\* effect(fn, { scheduler(fn) { setTimeout(fn) } }) in the script: the effect
\* function carries the scheduler and is called at once.
ScriptEffectDeferred(b) ==
    /\ Begin("effect", b, 1)
    /\ b \in TopBodies
    /\ Len(effects) < MaxEffects + Len(InitialEffects)
    /\ effects' = Append(effects, [fn |-> b, kind |-> "deferred"])
    /\ effectFn(Len(effects) + 1, <<>>, effectsBuckets, deps)
    /\ UNCHANGED <<variant, originData, dirty, cacheValue, logged, out>>

\* console.log('ending') in the script.
ScriptLog ==
    /\ Start("log", "ending", 0)
    /\ trace' = Append(trace, [who |-> None, val |-> 0])
    /\ UNCHANGED <<prog, runs, reads, logged, out>>
    /\ UNCHANGED <<timers, watchVars, heapVars, arrayVars, graphVars>>

\* The script has no further statement: its task ends.
ScriptEnd ==
    /\ Idle
    /\ budget > 0
    /\ budget' = 0
    /\ lastOp' = [op |-> "end", k |-> "", v |-> 0]
    /\ pre' = Snap
    /\ lastExit' = "none"
    /\ UNCHANGED <<prog, runs, reads, logged, out, ext>>

\* console.log(acc) inside an effect function.
Log ==
    /\ Running
    /\ ins.op = "log"
    /\ trace' = Append(trace, [who |-> cur.e, val |-> cur.acc])
    /\ callStack' = Advance(cur.acc)
    /\ Step
    /\ UNCHANGED <<variant, originData, effectsBuckets, effects, deps, activeEffect,
                   effectStack, dirty, cacheValue, runs, reads, logged, out, lastExit>>
    /\ UNCHANGED <<timers, watchVars, heapVars, arrayVars, graphVars>>

\* A timer fires: the event loop calls the oldest effect function handed to
\* setTimeout, once the script's task has ended and nothing runs.
Timeout ==
    /\ Idle
    /\ budget = 0
    /\ timers # <<>>
    /\ timers' = Tail(timers)
    /\ effectFn(Head(timers), <<>>, effectsBuckets, deps)
    /\ lastOp' = [op |-> "timeout", k |-> "", v |-> Head(timers)]
    /\ pre' = Snap
    /\ lastExit' = "none"
    /\ UNCHANGED <<variant, originData, effects, dirty, cacheValue, budget, logged, out>>
    /\ UNCHANGED <<trace, watchVars, heapVars, arrayVars, graphVars>>

\* --------------------------------------------------------------- wrappers
\* reactive(target): reactiveMap.get(target) if there is one, else a new
\* wrapper from createReactive, stored in reactiveMap.
existProxyNone(map, x) == None

existProxy(map, x) == map[x]

reactiveId(map, prx, x) ==
    IF existProxy(map, x) # None THEN existProxy(map, x) ELSE Len(prx) + 1

reactiveProxies(map, prx, x) ==
    IF existProxy(map, x) # None THEN prx ELSE Append(prx, [raw |-> x, kind |-> "reactive"])

reactiveMapSet(map, prx, x) ==
    IF existProxy(map, x) # None THEN map ELSE [map EXCEPT ![x] = Len(prx) + 1]

\* Array.prototype.includes applied to the wrapper: the elements are read
\* through the get trap in index order, each wrapped by reactive(res), until
\* one is the argument.  The result carries the reactiveMap and the wrappers
\* as the reads left them.
RECURSIVE searchWrapped(_, _, _, _)
searchWrapped(map, prx, i, arg) ==
    IF i > Len(ArrayElems) THEN [found |-> FALSE, map |-> map, proxies |-> prx]
    ELSE LET x == ArrayElems[i]
         IN  IF ProxyRef(reactiveId(map, prx, x)) = arg
             THEN [found |-> TRUE, map |-> reactiveMapSet(map, prx, x),
                   proxies |-> reactiveProxies(map, prx, x)]
             ELSE searchWrapped(reactiveMapSet(map, prx, x), reactiveProxies(map, prx, x),
                                i + 1, arg)

\* Array.prototype.includes applied to the raw array this[RAW_KEY].
searchRawNever(arg) == FALSE

searchRaw(arg) == \E i \in 1..Len(ArrayElems) : RawRef(ArrayElems[i]) = arg

\* The overridden includes: the wrapped search, and if it says false, the raw one.
includes(map, prx, arg) ==
    LET r == searchWrapped(map, prx, 1, arg)
    IN  [r EXCEPT !.found = IF r.found = FALSE THEN searchRaw(arg) ELSE r.found]

\* A JavaScript value with its type, for the strict comparison `res === false`.
JsNumber(n) == [t |-> "number", v |-> n]
JsBoolean(b) == [t |-> "boolean", v |-> IF b THEN 1 ELSE 0]

strictFalse(res) == res = JsBoolean(FALSE)

\* Array.prototype.indexOf (step 1, from 1) and lastIndexOf (step -1, from the
\* end) applied to the wrapper: the elements are read through the get trap,
\* each wrapped by reactive(res), until one is the argument; -1 if none is.
RECURSIVE indexWrapped(_, _, _, _, _)
indexWrapped(map, prx, i, step, arg) ==
    IF i < 1 \/ i > Len(ArrayElems) THEN [idx |-> -1, map |-> map, proxies |-> prx]
    ELSE LET x == ArrayElems[i]
         IN  IF ProxyRef(reactiveId(map, prx, x)) = arg
             THEN [idx |-> i - 1, map |-> reactiveMapSet(map, prx, x),
                   proxies |-> reactiveProxies(map, prx, x)]
             ELSE indexWrapped(reactiveMapSet(map, prx, x), reactiveProxies(map, prx, x),
                               i + step, step, arg)

\* The same searches applied to the raw array this[RAW_KEY].
RECURSIVE indexRaw(_, _, _)
indexRaw(i, step, arg) ==
    IF i < 1 \/ i > Len(ArrayElems) THEN -1
    ELSE IF RawRef(ArrayElems[i]) = arg THEN i - 1
    ELSE indexRaw(i + step, step, arg)

\* The overridden indexOf / lastIndexOf: the wrapped search, and the raw one
\* if `res === false`.
indexOf(method, map, prx, arg) ==
    LET from == IF method = "indexOf" THEN 1 ELSE Len(ArrayElems)
        step == IF method = "indexOf" THEN 1 ELSE -1
        r == indexWrapped(map, prx, from, step, arg)
    IN  [r EXCEPT !.idx = IF strictFalse(JsNumber(r.idx)) THEN indexRaw(from, step, arg)
                          ELSE r.idx]

\* The references the script can pass: every raw object, every wrapper it holds.
Refs == {RawRef(x) : x \in Raws} \cup {ProxyRef(id) : id \in UNION {held[x] : x \in Raws}}

\* reactive(x) in the script.
ScriptReactive(x) ==
    /\ Start("reactive", x, 0)
    /\ proxies' = reactiveProxies(reactiveMap, proxies, x)
    /\ reactiveMap' = reactiveMapSet(reactiveMap, proxies, x)
    /\ out' = reactiveId(reactiveMap, proxies, x)
    /\ held' = [held EXCEPT ![x] = @ \cup {reactiveId(reactiveMap, proxies, x)}]
    /\ UNCHANGED <<prog, runs, reads, logged, watchVars, timerVars, arrayVars, graphVars>>

\* a[i] in the script, a = reactive(the array): the get trap tracks (no
\* effect is active), fetches the raw element and returns reactive(res).
ScriptElement(i) ==
    /\ Start("element", ArrayElems[i], i)
    /\ reactiveMap["a"] # None
    /\ activeEffect = None
    /\ proxies' = reactiveProxies(reactiveMap, proxies, ArrayElems[i])
    /\ reactiveMap' = reactiveMapSet(reactiveMap, proxies, ArrayElems[i])
    /\ out' = reactiveId(reactiveMap, proxies, ArrayElems[i])
    /\ held' = [held EXCEPT ![ArrayElems[i]] = @ \cup {reactiveId(reactiveMap, proxies, ArrayElems[i])}]
    /\ UNCHANGED <<prog, runs, reads, logged, watchVars, timerVars, arrayVars, graphVars>>

\* a.includes(arg) in the script.
ScriptIncludes(arg) ==
    /\ Start("includes", arg.raw, arg.id)
    /\ reactiveMap["a"] # None
    /\ activeEffect = None
    /\ LET r == includes(reactiveMap, proxies, arg)
       IN  /\ proxies' = r.proxies
           /\ reactiveMap' = r.map
           /\ out' = IF r.found THEN 1 ELSE 0
    /\ UNCHANGED <<prog, runs, reads, logged, held, watchVars, timerVars, arrayVars, graphVars>>

\* a.indexOf(arg) / a.lastIndexOf(arg) in the script.
ScriptIndexOf(method, arg) ==
    /\ Start(method, arg.raw, arg.id)
    /\ reactiveMap["a"] # None
    /\ activeEffect = None
    /\ LET r == indexOf(method, reactiveMap, proxies, arg)
       IN  /\ proxies' = r.proxies
           /\ reactiveMap' = r.map
           /\ out' = r.idx
    /\ UNCHANGED <<prog, runs, reads, logged, held, watchVars, timerVars, arrayVars, graphVars>>

\* -------------------------------------------------------- specifications
InitGraph(v, data, g) ==
    /\ variant = v
    /\ graph = g
    /\ seen = {}
    /\ visits = [x \in Objects |-> 0]
    /\ originData = [k \in Keys |-> IF k \in DOMAIN data THEN data[k] ELSE Undef]
    /\ effectsBuckets = [k \in Keys |-> <<>>]
    /\ effects = InitialEffects
    /\ deps = [e \in EffectIds |-> <<>>]
    /\ activeEffect = None
    /\ effectStack = <<>>
    /\ dirty = [c \in Computeds |-> TRUE]
    /\ cacheValue = [c \in Computeds |-> Undef]
    /\ callStack = <<>>
    /\ budget = MaxOps
    /\ runs = [e \in EffectIds |-> 0]
    /\ reads = [e \in EffectIds |-> {}]
    /\ logged = [e \in EffectIds |-> Undef]
    /\ out = Undef
    /\ lastOp = [op |-> "none", k |-> "", v |-> 0]
    /\ lastExit = "none"
    /\ watcher = [e \in EffectIds |-> NoWatch]
    /\ calls = <<>>
    /\ inflight = {}
    /\ expired = {}
    /\ finalData = [e \in EffectIds |-> 0]
    /\ applied = [e \in EffectIds |-> <<>>]
    /\ timers = <<>>
    /\ trace = <<>>
    /\ proxies = <<>>
    /\ reactiveMap = [x \in Raws |-> None]
    /\ held = [x \in Raws |-> {}]
    /\ shouldTrack = TRUE
    /\ pre = Snap

InitOf(v, data) == InitGraph(v, data, NoGraph)

\* src/unnamed/part_004: reactive objects, the full effect runtime.
Init == InitOf("array", [ok |-> 1, text |-> 1, foo |-> 0, bar |-> 1, count |-> 0])

Next ==
    \/ \E b \in TopBodies : ScriptEffect(b)
    \/ \E w \in Writes : ScriptSet(w[1], w[2])
    \/ \E k \in ReadKeys : ScriptGet(k)
    \/ \E w \in ReadonlyKinds, x \in ReadonlyWrites : ScriptReadonlySet(w, x[1], x[2])
    \/ \E w \in ReadonlyKinds \cup {"reactive"}, k \in Keys : ScriptDelete(w, k)
    \/ Get \/ Set \/ Jz \/ NestedEffect \/ Throw \/ Return
    \/ RunNext \/ RunDone

Spec == Init /\ [][Next]_vars

\* src/unnamed/part_004, the array program: arr = reactive([1, 2, 3]).
InitList ==
    InitOf("list", ("0" :> 1) @@ ("1" :> 2) @@ ("2" :> 3) @@ ("3" :> Undef) @@ ("4" :> Undef)
                   @@ ("length" :> 3))

NextList ==
    \/ \E b \in TopBodies : ScriptEffect(b)
    \/ \E w \in Writes : ScriptSet(w[1], w[2])
    \/ Get \/ Return
    \/ RunNext \/ RunDone

SpecList == InitList /\ [][NextList]_vars

\* src/2.reactivity-system/3.branch-and-cleanup.ts, first program: no
\* effectStack, activeEffect never reset, trigger without a guard.
InitBranch == InitOf("branch", [ok |-> 1, text |-> 1])

NextBranch ==
    \/ \E b \in TopBodies : ScriptEffect(b)
    \/ \E w \in Writes : ScriptSet(w[1], w[2])
    \/ \E k \in ReadKeys : ScriptGet(k)
    \/ Get \/ Jz \/ Return
    \/ RunNext \/ RunDone

SpecBranch == InitBranch /\ [][NextBranch]_vars

\* src/unnamed/part_002, second program: effectStack, the guard in trigger,
\* a plain proxy whose set trap always triggers.
InitStack == InitOf("stack", [foo |-> 1, bar |-> 1, count |-> 1])

NextStack ==
    \/ \E b \in TopBodies : ScriptEffect(b)
    \/ \E w \in Writes : ScriptSet(w[1], w[2])
    \/ Get \/ Set \/ NestedEffect \/ Return
    \/ RunNext \/ RunDone

SpecStack == InitStack /\ [][NextStack]_vars

\* src/2.reactivity-system/7.computed.ts: computed with dirty and cacheValue;
\* the script holds `sum` and reads sum.value.
InitComputed7 == InitOf("computed7", [count |-> 1, foo |-> 2, bar |-> 3])

NextComputed7 ==
    \/ \E b \in TopBodies : ScriptLazy(b)
    \/ \E e \in 1..Len(effects) : ScriptCall(e)
    \/ \E w \in Writes : ScriptSet(w[1], w[2])
    \/ \E c \in ScriptComputeds : ScriptValue(c)
    \/ Get \/ Return
    \/ RunNext \/ RunScheduler \/ RunDone \/ ValueDone

SpecComputed7 == InitComputed7 /\ [][NextComputed7]_vars

\* src/2.reactivity-system/8.computed-effect-trigger.ts: computed that
\* tracks and triggers the key 'value'; effects read computed values.
InitComputed8 == InitOf("computed8", [count |-> 1, foo |-> 2, bar |-> 3, ok |-> 1])

NextComputed8 ==
    \/ \E b \in TopBodies : ScriptEffect(b)
    \/ \E w \in Writes : ScriptSet(w[1], w[2])
    \/ \E c \in ScriptComputeds : ScriptValue(c)
    \/ Get \/ Jz \/ Value \/ Return
    \/ RunNext \/ RunScheduler \/ RunDone \/ ValueDone

SpecComputed8 == InitComputed8 /\ [][NextComputed8]_vars

\* src/2.reactivity-system/10.watch-complete.ts: watch on the getter
\* () => proxyData.foo, with and without immediate.
InitWatch == InitOf("watch", [count |-> 1, foo |-> 2, bar |-> 3])

NextWatch ==
    \/ \E cb \in CbKinds, imm \in BOOLEAN : ScriptWatch(cb, imm)
    \/ \E w \in Writes : ScriptSet(w[1], w[2])
    \/ \E i \in 1..Len(calls) : Resolve(i)
    \/ Get \/ Return
    \/ RunJob \/ RunDone
    \/ JobCall \/ JobDone \/ SeedDone

SpecWatch == InitWatch /\ [][NextWatch]_vars

\* src/unnamed/part_004: obj = {}, a = reactive([obj, obj2]); the script
\* wraps objects, reads elements and calls includes.
InitIdentity == InitOf("identity", <<>>)

NextIdentity ==
    \/ \E x \in Raws : ScriptReactive(x)
    \/ \E i \in 1..Len(ArrayElems) : ScriptElement(i)
    \/ \E arg \in Refs : ScriptIncludes(arg)
    \/ \E m \in {"indexOf", "lastIndexOf"}, arg \in Refs : ScriptIndexOf(m, arg)

SpecIdentity == InitIdentity /\ [][NextIdentity]_vars

\* src/unnamed/part_004, the array program with the overridden mutating
\* methods: arr = reactive([1, 2, 3]); effects push, shift and read.
InitPush ==
    InitOf("push", ("0" :> 1) @@ ("1" :> 2) @@ ("2" :> 3) @@ ("3" :> Undef) @@ ("4" :> Undef)
                   @@ ("length" :> 3))

PushValues == {7}

NextPush ==
    \/ \E b \in TopBodies : ScriptEffect(b)
    \/ \E v \in PushValues : ScriptPush(v)
    \/ Get \/ Return
    \/ MethodCall \/ MethodGet \/ MethodSet \/ MethodDelete \/ MethodReturn
    \/ RunNext \/ RunDone

SpecPush == InitPush /\ [][NextPush]_vars

\* src/2.reactivity-system/13.object-proxy.ts: a plain object behind a proxy
\* with ownKeys and deleteProperty traps; effects enumerate and read.
InitObject == InitOf("object", [count |-> 1, foo |-> 2, bar |-> 3])

NextObject ==
    \/ \E b \in TopBodies : ScriptEffect(b)
    \/ \E w \in Writes : ScriptSet(w[1], w[2])
    \/ \E k \in Keys : ScriptDelete("reactive", k)
    \/ Get \/ ForIn \/ Return
    \/ RunNext \/ RunDone

SpecObject == InitObject /\ [][NextObject]_vars

\* src/2.reactivity-system/10.watch-complete.ts, the prototype program:
\* effects read proxyChild.bar; the script writes bar through the child and
\* through the parent.
InitProto == InitOf("proto", [n \in {"parent.bar"} |-> 1])

ChildWrites == {1, 2, 3}

NextProto ==
    \/ \E b \in TopBodies : ScriptEffect(b)
    \/ \E v \in ChildWrites : ScriptSetChild(v)
    \/ \E w \in Writes : ScriptSet(w[1], w[2])
    \/ GetChild \/ SetDone \/ Return
    \/ RunNext \/ RunDone

SpecProto == InitProto /\ [][NextProto]_vars

\* src/unnamed/part_000, the wrappers of one object with a nested object:
\* effects read the nested property through reactive(obj); the script writes
\* it through each kind of wrapper.
InitDeep == InitOf("deep", [n \in {"foo.aaa"} |-> 5])

NestedWrites == {5, 10}

NextDeep ==
    \/ \E b \in TopBodies : ScriptEffect(b)
    \/ \E w \in WrapperKinds, v \in NestedWrites : ScriptSetNested(w, v)
    \/ GetNested \/ Return
    \/ RunNext \/ RunDone

SpecDeep == InitDeep /\ [][NextDeep]_vars

\* src/2.reactivity-system/10.watch-complete.ts: watch on proxyData itself,
\* with and without immediate; the script writes its properties.
InitSource == InitOf("source", [count |-> 1, foo |-> 2, bar |-> 3])

NextSource ==
    \/ \E cb \in {"log", "fetch"}, imm \in BOOLEAN : ScriptWatchSource(cb, imm)
    \/ \E w \in Writes : ScriptSet(w[1], w[2])
    \/ \E i \in 1..Len(calls) : Resolve(i)
    \/ Traverse \/ Return
    \/ RunJob \/ RunDone
    \/ JobCall \/ JobDone \/ SeedDone

SpecSource == InitSource /\ [][NextSource]_vars

\* src/2.reactivity-system/10.watch-complete.ts, traverse alone: the script
\* calls it once on some object of some heap.  The engine is single-threaded
\* and runs a call to its end, hence the fairness.
InitTraverse == \E g \in Graphs : InitGraph("traverse", <<>>, g)

NextTraverse ==
    \/ \E root \in Objects : ScriptTraverse(root)
    \/ TraverseEnter \/ TraverseNext \/ TraverseReturn

SpecTraverse == InitTraverse /\ [][NextTraverse]_vars /\ WF_vars(NextTraverse)

\* src/unnamed/part_001: effects with and without the deferring scheduler,
\* writes of count, console.log('ending'); the timers fire after the script.
InitSched == InitOf("sched", [count |-> 1])

NextSched ==
    \/ \E b \in TopBodies : ScriptEffect(b)
    \/ \E b \in TopBodies : ScriptEffectDeferred(b)
    \/ \E w \in Writes : ScriptSet(w[1], w[2])
    \/ ScriptLog \/ ScriptEnd
    \/ Get \/ Log \/ Return
    \/ RunNext \/ RunDefer \/ RunDone
    \/ Timeout

SpecSched == InitSched /\ [][NextSched]_vars

\* ------------------------------------------------------------ properties
Subscribed(e, k) == e \in Range(effectsBuckets[k])
WasSubscribed(e, k) == e \in Range(pre.buckets[k])
Created == 1..Len(effects)
\* The effect functions of body b that existed before the last statement.
Old(b) == {e \in 1..pre.n : effects[e].fn = b}
After(op, k) == Idle /\ lastOp.op = op /\ lastOp.k = k

\* C1: whenever no computation executes, an effect function is in the
\* subscriber set of a key exactly if its most recent run read that key
\* through the proxy.
C1_SubscribedIffRead ==
    Idle => \A e \in Created, k \in Keys : Subscribed(e, k) <=> k \in reads[e]

Of(b) == {e \in Created : effects[e].fn = b}

\* C3: the effect `count++` runs once at registration and once for every
\* write to `count` made by the script, and at no other statement; the
\* write it makes itself never puts it into effectsToRun.
C3_NoSelfTrigger ==
    /\ Idle =>
          \A e \in Of("inc") :
              runs[e] = IF e > pre.n THEN 1
                        ELSE IF lastOp.op = "set" /\ lastOp.k = "count" THEN pre.runs[e] + 1
                        ELSE pre.runs[e]
    /\ \A i \in 1..(Len(callStack) - 1) :
          /\ callStack[i].kind = "fn"
          /\ effects[callStack[i].e].fn = "inc"
          /\ callStack[i + 1].kind = "run"
          => callStack[i].e \notin Range(callStack[i + 1].todo)

\* C3's case: the script wrote `count` twice after the effect was registered,
\* and the statement has completed.
C3_Witness ==
    /\ After("set", "count")
    /\ \E e \in Old("inc") : runs[e] >= 3 /\ originData["count"] = lastOp.v + 1

\* C5: fn1 registers fn2 and then reads foo; fn2 reads bar.  The read of
\* foo is recorded for fn1 and not for fn2; a write to foo re-runs fn1 and
\* not the existing fn2, a write to bar re-runs fn2 and not fn1.
C5_NestedRestore ==
    /\ Idle =>
          /\ \A x \in Of("fn1") : Subscribed(x, "foo") /\ ~Subscribed(x, "bar")
          /\ \A y \in Of("fn2") : Subscribed(y, "bar") /\ ~Subscribed(y, "foo")
    /\ After("set", "foo") =>
          /\ \A x \in Old("fn1") : runs[x] = pre.runs[x] + 1
          /\ \A y \in Old("fn2") : runs[y] = pre.runs[y]
    /\ After("set", "bar") =>
          /\ \A y \in Old("fn2") : runs[y] = pre.runs[y] + 1
          /\ \A x \in Old("fn1") : runs[x] = pre.runs[x]

\* C5's case: bar was written after fn1 and its nested fn2 had run.
C5_Witness ==
    /\ After("set", "bar")
    /\ \E x \in Old("fn1"), y \in Old("fn2") : runs[y] = pre.runs[y] + 1 /\ runs[x] >= 1

\* What the getter of computed c returns on the current data:
\* sum = foo + bar, pick = ok ? count : ok.
Expected(c) ==
    IF c = "sum" THEN originData["foo"] + originData["bar"]
    ELSE IF originData["ok"] # 0 THEN originData["count"] ELSE originData["ok"]

\* The effect bodies that read c.value.
ReadersOf(c) == IF c = "sum" THEN {"reader", "both"} ELSE {"picker"}

\* C8: a read of sum.value runs the getter once if dirty was true and not at
\* all if it was false, and leaves dirty false; a write to foo or bar runs
\* no getter and leaves dirty true, a write to another key leaves dirty as
\* it was.
C8_ComputedCaching ==
    LET e == effOf("sum") IN
    /\ After("value", "sum") =>
          /\ runs[e] = pre.runs[e] + (IF pre.dirty["sum"] THEN 1 ELSE 0)
          /\ ~dirty["sum"]
    /\ Idle /\ lastOp.op = "set" =>
          /\ runs[e] = pre.runs[e]
          /\ dirty["sum"] = (pre.dirty["sum"] \/ lastOp.k \in {"foo", "bar"})

\* C8's case: a read served from the cache, after the getter had run twice
\* (a first read, a dependency write, a second read).
C8_Witness ==
    /\ After("value", "sum")
    /\ ~pre.dirty["sum"]
    /\ runs[effOf("sum")] = 2

\* C9: whenever no statement is in progress and dirty is false, cacheValue
\* is what the getter returns on the current data, and a read of .value by
\* the script returns that value.
C9_ComputedFresh ==
    \A c \in ScriptComputeds :
        /\ Idle /\ ~dirty[c] => cacheValue[c] = Expected(c)
        /\ After("value", c) => out = Expected(c)

\* C9's case: pick.value read after its getter ran a second time on the
\* other branch (its dependencies changed), and then `count`, no longer a
\* dependency, was written.
C9_Witness ==
    /\ After("value", "pick")
    /\ originData["ok"] = 0
    /\ originData["count"] # 1
    /\ runs[effOf("pick")] = 2
    /\ ~pre.dirty["pick"]

\* C10: an effect whose last run read c.value is re-run by every write the
\* script makes to a key the getter of c is subscribed to, and ends that
\* re-run with the recomputed value.
C10_ReaderRerun ==
    \A c \in ScriptComputeds :
        \A r \in 1..pre.n :
            /\ effects[r].fn \in ReadersOf(c)
            /\ Idle /\ lastOp.op = "set"
            /\ WasSubscribed(effOf(c), lastOp.k)
            => runs[r] > pre.runs[r] /\ logged[r] = Expected(c)

\* C10's case: the second of two successive writes to foo re-ran a reader of
\* sum.value.
C10_Witness ==
    /\ After("set", "foo")
    /\ \E r \in Old("reader") :
          runs[r] >= 3 /\ pre.runs[r] >= 2 /\ logged[r] = Expected("sum")

\* C4: no effect function is started while an invocation of the same effect
\* function is still running (on the call stack), whoever made the write.
C4_NoReentry ==
    \A i, j \in 1..Len(callStack) :
        i < j /\ callStack[i].kind = "fn" /\ callStack[j].kind = "fn"
            => callStack[i].e # callStack[j].e

\* C6: after every top-level registration or write has completed,
\* effectStack is empty and there is no active effect.
C6_StackEmptyWhenIdle ==
    Idle => effectStack = <<>> /\ activeEffect = None

\* C7: after a user function threw, effectStack and activeEffect are as
\* they were before the statement started, and a later read outside any
\* computation registers no dependency.
C7_RestoredAfterThrow ==
    /\ Idle /\ lastExit = "throw"
          => effectStack = pre.stack /\ activeEffect = pre.active
    /\ Idle /\ lastOp.op = "get" => effectsBuckets = pre.buckets

\* The length of the array before the last statement.
preLength == pre.data["length"]

\* C11 as stated: a write of n to `length` re-runs every effect subscribed
\* to an index >= n and no effect subscribed only to indices < n; a write
\* to index 0 does not re-run the effect that reads index 2.
C11_LengthTruncation ==
    /\ After("set", "length") =>
          \A e \in 1..pre.n :
              /\ (\E k \in Keys : IsIndex(k) /\ Number(k) >= lastOp.v /\ WasSubscribed(e, k))
                    => runs[e] = pre.runs[e] + 1
              /\ (\A k \in Keys : WasSubscribed(e, k) => IsIndex(k) /\ Number(k) < lastOp.v)
                    => runs[e] = pre.runs[e]
    /\ After("set", "0") => \A e \in Old("at2") : runs[e] = pre.runs[e]

\* C11 amended: the same for a write that changes `length` (n differs from
\* the current length); a write of the current length re-runs nothing.
C11_LengthTruncationChanged ==
    /\ After("set", "length") /\ preLength # lastOp.v =>
          \A e \in 1..pre.n :
              /\ (\E k \in Keys : IsIndex(k) /\ Number(k) >= lastOp.v /\ WasSubscribed(e, k))
                    => runs[e] = pre.runs[e] + 1
              /\ (\A k \in Keys : WasSubscribed(e, k) => IsIndex(k) /\ Number(k) < lastOp.v)
                    => runs[e] = pre.runs[e]
    /\ After("set", "length") /\ preLength = lastOp.v =>
          \A e \in 1..pre.n : runs[e] = pre.runs[e]
    /\ After("set", "0") => \A e \in Old("at2") : runs[e] = pre.runs[e]

\* C11's case: for [1, 2, 3], length was set from 3 to 1; the effect reading
\* index 2 re-ran (and read undefined), the effect reading index 0 did not.
C11_Witness ==
    /\ After("set", "length")
    /\ preLength = 3 /\ lastOp.v = 1
    /\ \E e \in Old("at2") : runs[e] = 2 /\ logged[e] = Undef
    /\ \E e \in Old("at0") : runs[e] = 1

OldWatches == {w \in Watches : w <= pre.n}

\* C13: watch with immediate has called cb before it returns, first with
\* (current value of the source, undefined); a callback that does not write
\* the source has then been called exactly once.  Without immediate cb has
\* not been called.  Afterwards every write to the source by the script
\* calls cb again (once, when no callback writes the source).
C13_WatchImmediate ==
    /\ \A cb \in CbKinds :
          After("watch", cb) =>
              LET cs == CallsOf(calls, Len(effects))
              IN  IF lastOp.v = 1
                  THEN /\ cs # <<>>
                       /\ cs[1] = [w |-> Len(effects), new |-> pre.data["foo"], old |-> Undef,
                                  hook |-> None]
                       /\ cb # "bump" => Len(cs) = 1
                  ELSE cs = <<>>
    /\ After("set", "foo") =>
          \A w \in OldWatches :
              /\ Len(CallsOf(calls, w)) > Len(CallsOf(pre.calls, w))
              /\ (\A x \in Watches : watcher[x].cb # "bump")
                    => Len(CallsOf(calls, w)) = Len(CallsOf(pre.calls, w)) + 1
    /\ After("set", "bar") => calls = pre.calls

\* C13's case: a watch registered with immediate was called back once at
\* registration and once more by a later write to the source.
C13_Witness ==
    /\ After("set", "foo")
    /\ \E w \in OldWatches :
          /\ watcher[w].cb = "log"
          /\ watcher[w].seed = Undef
          /\ Len(CallsOf(calls, w)) = 2
          /\ CallsOf(calls, w)[1].old = Undef
          /\ CallsOf(calls, w)[2].new = lastOp.v

\* C14: for a watch whose asynchronous callback registers the hook and
\* applies its result only if not expired: the invocations that assigned
\* finalData did so in the order they were invoked (an earlier one never
\* after a later one), and once no fetch is pending finalData is the result
\* of the last invocation.
C14_AsyncStaleness ==
    \A w \in Watches :
        watcher[w].cb = "fetch" =>
            /\ \A i, j \in 1..Len(applied[w]) : i < j => applied[w][i] < applied[w][j]
            /\ Idle /\ CallIds(calls, w) # {} /\ CallIds(calls, w) \cap inflight = {}
                  => \A last \in CallIds(calls, w) :
                         (\A i \in CallIds(calls, w) : i <= last) => finalData[w] = Res(last)

\* C14's case: of three invocations the last resolved first and was applied;
\* then an earlier one resolved and was discarded.
C14_Witness ==
    /\ After("resolve", "")
    /\ \E w \in Watches :
          /\ Len(CallsOf(calls, w)) = 3
          /\ lastOp.v \in CallIds(calls, w)
          /\ lastOp.v \in expired
          /\ applied[w] # <<>>
          /\ Top(applied[w]) > lastOp.v
          /\ finalData[w] = Res(Top(applied[w]))

\* C15: in every invocation of a watch's callback, oldValue is the newValue
\* of the invocation before it, and for the first the seeded value
\* (undefined with immediate).
C15_OldIsPreviousNew ==
    \A w \in Watches :
        LET cs == CallsOf(calls, w)
        IN  \A j \in 1..Len(cs) :
                cs[j].old = IF j = 1 THEN watcher[w].seed ELSE cs[j - 1].new

\* C16: a write or a delete through a read-only wrapper (deep or shallow)
\* leaves the raw object as it was, runs no effect function, subscribes
\* nothing, and returns true.
C16_ReadonlyRejects ==
    Idle /\ lastOp.op \in ReadonlyKinds =>
        /\ originData = pre.data
        /\ runs = pre.runs
        /\ effectsBuckets = pre.buckets
        /\ out = 1

\* C16's case: a write through a read-only wrapper of a value the key does
\* not hold, while an effect function is subscribed to the key through the
\* mutable wrapper.
C16_Witness ==
    /\ Idle
    /\ lastOp.op \in ReadonlyKinds
    /\ lastOp.v # Undef
    /\ originData[lastOp.k] # lastOp.v
    /\ \E e \in Created : Subscribed(e, lastOp.k)

\* C17: every wrapper the script received for a raw object, from reactive(x)
\* or from reading an element through the array's wrapper, is one and the
\* same wrapper of that object.
C17_IdentityStable ==
    \A x \in Raws :
        /\ Cardinality(held[x]) <= 1
        /\ \A id \in held[x] : proxies[id].raw = x /\ reactiveMap[x] = id

\* C17's case: an element read through the array's wrapper returned the
\* wrapper the script had received for that object before.
C17_Witness ==
    /\ lastOp.op = "element"
    /\ pre.held[lastOp.k] # {}
    /\ out \in pre.held[lastOp.k]

\* C18: a.includes(e) is true when e is the raw object of an element or the
\* wrapper of one, and false when e is neither.
C18_Includes ==
    lastOp.op = "includes" =>
        LET x == IF lastOp.v = None THEN lastOp.k ELSE proxies[lastOp.v].raw
        IN  out = IF \E i \in 1..Len(ArrayElems) : ArrayElems[i] = x THEN 1 ELSE 0

\* C18's case: includes was called with the raw object of the second
\* element and said true.
C18_Witness ==
    /\ lastOp.op = "includes"
    /\ lastOp.v = None
    /\ lastOp.k = ArrayElems[2]
    /\ out = 1

\* How often x occurs in the sequence s.
Count(s, x) == Len(SelectSeq(s, LAMBDA y : y = x))

Deferred == {e \in Created : effects[e].kind = "deferred"}

\* C19: a write that notifies an effect registered with the deferring
\* scheduler does not run it: when the write has returned the effect has run
\* no further time and has been handed to setTimeout exactly once (an effect
\* not subscribed to the key not at all); until the script's task has ended
\* the effect has run (and logged) only at its registration; each timer that
\* fires runs its effect once.
C19_SchedulerDefers ==
    /\ After("set", lastOp.k) =>
          \A e \in Deferred :
              /\ runs[e] = pre.runs[e]
              /\ Count(timers, e) = Count(pre.timers, e)
                                      + (IF WasSubscribed(e, lastOp.k) THEN 1 ELSE 0)
    /\ (Idle /\ lastOp.op # "timeout") =>
          \A e \in Deferred :
              /\ runs[e] = 1
              /\ Len(SelectSeq(trace, LAMBDA t : t.who = e)) = 1
    /\ (Idle /\ lastOp.op = "timeout") =>
          /\ timers = Tail(pre.timers)
          /\ \A e \in Created :
                runs[e] = pre.runs[e] + (IF e = Head(pre.timers) THEN 1 ELSE 0)

\* C19's case, the demo's output: the effect logs 1 at registration, the
\* script writes count = 2 and logs 'ending', and the timer's run logs 2.
C19_Witness ==
    /\ Idle
    /\ lastOp.op = "timeout"
    /\ Len(effects) = 1
    /\ effects[1].kind = "deferred"
    /\ trace = <<[who |-> 1, val |-> 1], [who |-> None, val |-> 0], [who |-> 1, val |-> 2]>>

\* The keys the statements of body b read, and the value b returns on the
\* current data (the bodies here are sums of reads).
KeysOf(b) == {Code(b)[i].k : i \in {j \in 1..Len(Code(b)) : Code(b)[j].op \in {"get", "add"}}}

RECURSIVE SumOf(_, _)
SumOf(b, i) == IF i = 0 THEN 0 ELSE SumOf(b, i - 1) + originData[Code(b)[i].k]

\* C20: effect(fn, {lazy: true}) runs fn not at all and subscribes the effect
\* function to nothing; a call of the returned handle runs fn once, with the
\* handle as activeEffect and on top of effectStack while fn runs, leaves the
\* handle subscribed to exactly the keys fn read, once each in its deps,
\* leaves activeEffect and effectStack as they were before the call, and
\* returns what fn returned.
C20_LazyEffect ==
    /\ (Idle /\ lastOp.op = "lazy") =>
          /\ Len(effects) = pre.n + 1
          /\ runs[Len(effects)] = 0
          /\ deps[Len(effects)] = <<>>
          /\ effectsBuckets = pre.buckets
          /\ activeEffect = pre.active
    /\ \A e \in Created : runs[e] = 0 => \A k \in Keys : ~Subscribed(e, k)
    /\ (callStack # <<>> /\ cur.kind = "fn") =>
          activeEffect = cur.e /\ Top(effectStack) = cur.e
    /\ (Idle /\ lastOp.op = "call") =>
          LET e == lastOp.v IN
          /\ runs[e] = pre.runs[e] + 1
          /\ \A k \in Keys : Subscribed(e, k) <=> k \in KeysOf(effects[e].fn)
          /\ Range(deps[e]) = KeysOf(effects[e].fn)
          /\ Len(deps[e]) = Cardinality(KeysOf(effects[e].fn))
          /\ activeEffect = pre.active
          /\ effectStack = pre.stack
          /\ out = SumOf(effects[e].fn, Len(Code(effects[e].fn)))

\* C20's case: the handle of a lazy effect is called a second time, after a
\* write changed what fn returns.
C20_Witness ==
    /\ Idle
    /\ lastOp.op = "call"
    /\ pre.runs[lastOp.v] >= 1
    /\ out = 7

\* The index of raw object x in the raw array, -1 if it is no element.
IndexIn(x) ==
    IF \E i \in 1..Len(ArrayElems) : ArrayElems[i] = x
    THEN (CHOOSE i \in 1..Len(ArrayElems) : ArrayElems[i] = x) - 1
    ELSE -1

\* C21: a.indexOf(x) and a.lastIndexOf(x), with x the raw object of an element
\* of the array, return that element's index.
C21_IndexOfRaw ==
    (lastOp.op \in {"indexOf", "lastIndexOf"} /\ lastOp.v = None /\ IndexIn(lastOp.k) # -1)
        => out = IndexIn(lastOp.k)

\* The effect functions that do nothing but push.
PushOnly == {"push1", "push2"}

\* The elements of the array in data, as a sequence.
Elems(data) == [i \in 1..data["length"] |-> data[String(i - 1)]]

\* C22: while every effect function just pushes on the array, each has run
\* exactly once (at its registration, none re-runs another) and is
\* subscribed to nothing, and each registration has appended exactly its one
\* element to the array.
C22_PushersIndependent ==
    (\A e \in Created : effects[e].fn \in PushOnly) =>
        /\ \A e \in Created : runs[e] = 1
        /\ Idle => \A e \in Created : \A k \in Keys : ~Subscribed(e, k)
        /\ (Idle /\ lastOp.op = "effect") =>
              Elems(originData) = Append(Elems(pre.data), Code(lastOp.k)[1].n)

\* C22's case: two effect functions that push have been registered, the
\* second on the array the first had pushed on.
C22_Witness ==
    /\ Idle
    /\ lastOp.op = "effect"
    /\ Len(effects) = 2
    /\ effects[1].fn = "push1"
    /\ effects[2].fn = "push2"
    /\ Elems(originData) = <<1, 2, 3, 1, 2>>

\* C23: every push by the script re-runs every effect function that reads
\* `length`, and leaves it subscribed to `length`.
C23_LengthReaderRerun ==
    (Idle /\ lastOp.op = "push") =>
        \A e \in Created :
            effects[e].fn = "len" => runs[e] = pre.runs[e] + 1 /\ Subscribed(e, "length")

\* C24: shouldTrack is false while a mutating method executes and true when
\* no statement is in progress, and an effect function that only calls
\* shift() is subscribed to no key of the array.
C24_TrackingSuspended ==
    /\ InMethod => ~shouldTrack
    /\ Idle => shouldTrack
    /\ \A e \in Created : effects[e].fn = "shift" => \A k \in Keys : ~Subscribed(e, k)

\* C25: the set trap classifies a write as SET when the key is an own
\* property of the target and as ADD when it is not; for an index of an
\* array, as SET below the current length and as ADD at or past it.
C25_WriteClassification ==
    lastOp.op = "set" =>
        setType(pre.data, lastOp.k) =
            IF variant \in {"list", "push"} /\ IsIndex(lastOp.k)
            THEN (IF Number(lastOp.k) < pre.data["length"] THEN "set" ELSE "add")
            ELSE (IF pre.data[lastOp.k] # Undef THEN "set" ELSE "add")

\* The effect functions that existed before the last top-level statement.
Before == 1..pre.n

C27_DeleteNotifies ==
    (Idle /\ lastOp.op = "reactive") =>
        /\ originData[lastOp.k] = Undef
        /\ \A e \in Before :
              runs[e] = pre.runs[e]
                        + (IF /\ pre.data[lastOp.k] # Undef
                              /\ (WasSubscribed(e, lastOp.k) \/ WasSubscribed(e, "iterate"))
                           THEN 1 ELSE 0)

\* C27's case: a key that is no own property is deleted while an effect
\* function is subscribed to it.
C27_Witness ==
    /\ Idle
    /\ lastOp.op = "reactive"
    /\ pre.data[lastOp.k] = Undef
    /\ \E e \in Before : WasSubscribed(e, lastOp.k)

\* C28: a write through the proxy stores the value and re-runs the effect
\* functions subscribed to the key exactly if the value differs from the one
\* the key held, NaN counting as equal to NaN.
C28_NoOpWrite ==
    (Idle /\ lastOp.op = "set") =>
        /\ originData[lastOp.k] = lastOp.v
        /\ \A e \in Before :
              WasSubscribed(e, lastOp.k) =>
                  runs[e] = pre.runs[e] + (IF pre.data[lastOp.k] # lastOp.v THEN 1 ELSE 0)

\* C28's case: NaN is written to a key that holds NaN while an effect
\* function is subscribed to the key.
C28_Witness ==
    /\ Idle
    /\ lastOp.op = "set"
    /\ lastOp.v = NaN
    /\ pre.data[lastOp.k] = NaN
    /\ \E e \in Before : WasSubscribed(e, lastOp.k)

\* C29 as stated: a write of bar through the child, bar being inherited
\* from the parent, re-runs every effect function that read bar through the
\* child exactly once and stores the value on the child's raw object.
C29_ProtoOnce ==
    (Idle /\ lastOp.op = "setchild" /\ pre.data["bar"] = Undef) =>
        /\ originData["bar"] = lastOp.v
        /\ originData["parent.bar"] = pre.data["parent.bar"]
        /\ \A e \in Before : runs[e] = pre.runs[e] + 1

\* C29, amended: the same for a write of a value other than the one bar read
\* before; a write of the value bar already read re-runs nothing (and still
\* stores the value on the child's raw object).
C29_ProtoOnceChanged ==
    (Idle /\ lastOp.op = "setchild") =>
        /\ originData["bar"] = lastOp.v
        /\ originData["parent.bar"] = pre.data["parent.bar"]
        /\ \A e \in Before :
              runs[e] = pre.runs[e]
                        + (IF lastOp.v # (IF pre.data["bar"] # Undef THEN pre.data["bar"]
                                          ELSE pre.data["parent.bar"])
                           THEN 1 ELSE 0)

\* C29's case: bar is inherited, an effect function has read it through the
\* child (and is subscribed to bar of both targets), and the script writes
\* another value through the child.
C29_Witness ==
    /\ Idle
    /\ lastOp.op = "setchild"
    /\ pre.data["bar"] = Undef
    /\ lastOp.v # pre.data["parent.bar"]
    /\ \E e \in Before : WasSubscribed(e, "bar") /\ WasSubscribed(e, "parent.bar")
                           /\ runs[e] = pre.runs[e] + 1

\* C30: a write to the nested object reached through the deep read-only
\* wrapper changes nothing and runs nothing; a write to the nested object
\* reached through a shallow wrapper (read-only or reactive) changes the raw
\* nested object and runs no effect function.
C30_DeepReadonly ==
    (Idle /\ lastOp.op = "nested") =>
        /\ lastOp.k = "readonly" => originData = pre.data /\ runs = pre.runs
        /\ lastOp.k \in {"shallowReadonly", "shallowReactive"} =>
              originData = [pre.data EXCEPT !["foo.aaa"] = lastOp.v] /\ runs = pre.runs

\* C30's case: writes of a new value through the deep read-only wrapper and
\* through a shallow wrapper, while an effect function is subscribed to the
\* nested property; here the one through the shallow read-only wrapper.
C30_Witness ==
    /\ Idle
    /\ lastOp.op = "nested"
    /\ lastOp.k = "shallowReadonly"
    /\ lastOp.v # pre.data["foo.aaa"]
    /\ \E e \in Before : WasSubscribed(e, "foo.aaa")

\* C31: while the script's write to the array is delivered, and after it, no
\* effect function has been called more than once by it, whatever the keys
\* it is subscribed under (the written key, `length`, the indices at or past
\* the new length); the delivery ends with every member called.
C31_DeliveredOnce ==
    lastOp.op = "set" =>
        /\ \A e \in Created : runs[e] <= pre.runs[e] + 1
        /\ \A i \in 1..Len(callStack) :
              callStack[i].kind = "run" => i = 1 /\ Len(callStack[i].todo) <= pre.n

\* C31's case: a write to `length` was delivered to an effect function
\* subscribed both to `length` and to an index at or past the new length.
C31_Witness ==
    /\ After("set", "length")
    /\ \E e \in Before :
          /\ WasSubscribed(e, "length")
          /\ \E i \in 1..Len(Indices) :
                Number(Indices[i]) >= lastOp.v /\ WasSubscribed(e, Indices[i])
          /\ runs[e] = pre.runs[e] + 1

\* C32: when watch without immediate returns, the source has been evaluated
\* once, its value is kept as oldValue and cb has not been called; cb stays
\* uncalled (and the source unevaluated) until a write notifies the watch,
\* and its first invocation is passed the value kept at registration.
C32_WatchSeeds ==
    /\ \A cb \in CbKinds :
          After("watch", cb) /\ lastOp.v = 0 =>
              LET w == Len(effects)
              IN  /\ runs[w] = 1
                  /\ CallsOf(calls, w) = <<>>
                  /\ watcher[w].oldValue = pre.data["foo"]
                  /\ watcher[w].seed = pre.data["foo"]
    /\ \A w \in Watches :
          watcher[w].seed # Undef =>
              LET cs == CallsOf(calls, w)
              IN  /\ Idle /\ cs = <<>> => runs[w] = 1
                  /\ cs # <<>> => cs[1].old = watcher[w].seed

\* C32's case: the first write to the source after a registration without
\* immediate called cb for the first time, with the value kept then.
C32_Witness ==
    /\ After("set", "foo")
    /\ \E w \in OldWatches :
          /\ watcher[w].cb = "log"
          /\ pre.calls = <<>>
          /\ Len(CallsOf(calls, w)) = 1
          /\ CallsOf(calls, w)[1].old = pre.data["foo"]
          /\ CallsOf(calls, w)[1].new = lastOp.v
          /\ lastOp.v # pre.data["foo"]

\* C33: after watch(proxyData, cb), whenever nothing runs the watch is
\* subscribed to every property of the object, and every write of the
\* script to one of them has called cb exactly once, however many writes
\* went before.
C33_WatchEveryWrite ==
    /\ Idle => \A w \in Watches, k \in Range(ObjectKeys) : Subscribed(w, k)
    /\ Idle /\ lastOp.op = "set" =>
          \A w \in OldWatches :
              Len(CallsOf(calls, w)) = Len(CallsOf(pre.calls, w)) + 1

\* C33's case: the third successive write after the registration, to a
\* property other than the one written first, called cb again.
C33_Witness ==
    /\ After("set", "bar")
    /\ \E w \in OldWatches :
          /\ watcher[w].seed # Undef
          /\ pre.data["count"] # 1
          /\ Len(CallsOf(pre.calls, w)) = 2
          /\ Len(CallsOf(calls, w)) = 3

\* The callback invocations of the watch of invocation i that came after i.
Later(i) == {j \in (i + 1)..Len(calls) : calls[j].w = calls[i].w}

\* C34: the hook that callback invocation i registered stays uninvoked as
\* long as no later job of the watch has run, and the next job of the watch
\* invokes it, after it evaluated the source (the invocation's newValue)
\* and before it enters the callback.
C34_HookBeforeNext ==
    \A i \in 1..Len(calls) :
        registers(watcher[calls[i].w].cb, calls[i].new) =>
            /\ Later(i) = {} => i \notin expired
            /\ \A j \in Later(i) :
                  (\A m \in Later(i) : j <= m) => calls[j].hook = i /\ i \in expired

\* C34's case: two invocations registered hooks, the third job invoked the
\* second's; the third's is not invoked yet.
C34_Witness ==
    /\ Idle
    /\ Len(calls) = 3
    /\ \A i \in 1..3 : registers(watcher[calls[i].w].cb, calls[i].new)
    /\ calls[2].hook = 1
    /\ calls[3].hook = 2
    /\ expired = {1, 2}

\* C35: no hook is invoked by two jobs.
C35_HookOnce ==
    \A i, j \in 1..Len(calls) :
        i < j /\ calls[i].hook # None => calls[j].hook # calls[i].hook

\* C36: every invocation of the callback of a watch on proxyData is passed an
\* oldValue that is not the very object passed as newValue.
C36_DistinctSnapshots ==
    \A i \in 1..Len(calls) : calls[i].old # calls[i].new

\* The objects reachable from the objects of S by property values.
RECURSIVE Reach(_)
Reach(S) ==
    LET T == S \cup {y \in Objects : \E x \in S : y \in Range(graph[x])}
    IN  IF T = S THEN S ELSE Reach(T)

\* While traverse runs no object has been enumerated twice and the calls
\* nest no deeper than one per object plus the call that returns at once;
\* when it has returned, exactly the objects reachable from the root have
\* been enumerated, once each.
TraverseOnce ==
    /\ \A x \in Objects : visits[x] <= 1
    /\ Len(callStack) <= Cardinality(Objects) + 1
    /\ After("traverse", "") =>
          \A x \in Objects : visits[x] = IF x \in Reach({lastOp.v}) THEN 1 ELSE 0

\* C37: on every heap (with cycles, with shared objects) traverse returns,
\* and it enumerates the properties of each object reachable from its
\* argument exactly once.
C37_TraverseTerminates ==
    /\ []TraverseOnce
    /\ (lastOp.op = "traverse") ~> After("traverse", "")

\* C37's case: traverse returned on a heap where the root's two properties
\* hold two other objects, one of which holds the other (a shared object),
\* which in turn holds the root (a cycle).
C37_Witness ==
    /\ After("traverse", "")
    /\ lastOp.v = 1
    /\ graph = (1 :> <<2, 3>>) @@ (2 :> <<3, None>>) @@ (3 :> <<1, None>>)
    /\ \A x \in Objects : visits[x] = 1

\* An effect function is in the subscriber set of a key exactly if that set
\* occurs in its deps.
BackReferences ==
    \A e \in EffectIds, k \in Keys : Subscribed(e, k) <=> k \in Range(deps[e])

\* A step that calls effectFn of e (and so cleanup(e)) leaves e in no
\* subscriber set and with empty deps, and every other effect function in
\* exactly the sets it was in.
CleanupExact ==
    \A e \in EffectIds :
        runs'[e] # runs[e] =>
            /\ \A k \in Keys : e \notin Range(effectsBuckets'[k])
            /\ deps'[e] = <<>>
            /\ \A o \in EffectIds \ {e}, k \in Keys :
                  o \in Range(effectsBuckets'[k]) <=> o \in Range(effectsBuckets[k])

\* C38: in every reachable state the subscriber sets and the deps lists
\* mirror each other, and cleanup removes exactly the memberships of the
\* effect function it is called for.
C38_BackReferences == []BackReferences /\ [][CleanupExact]_vars

\* C38's case: an effect function that was subscribed is being re-run, just
\* cleaned up, while another effect function is still subscribed to a key
\* the first was subscribed to.
C38_Witness ==
    /\ callStack # <<>>
    /\ cur.kind = "fn"
    /\ cur.pc = 1
    /\ runs[cur.e] >= 2
    /\ deps[cur.e] = <<>>
    /\ \E k \in Keys, o \in Created \ {cur.e} :
          WasSubscribed(cur.e, k) /\ Subscribed(o, k)

\* C39: with one outer effect function fn1, which registers fn2 on each of
\* its runs, a write of the script to `bar` (read by fn2 only) executes fn2
\* exactly once, however often fn1 has run.
C39_NestedOnce ==
    After("set", "bar") /\ Cardinality(Old("fn1")) = 1 =>
        Cardinality({e \in Of("fn2") : runs[e] # pre.runs[e]}) = 1

\* C40: a write of the script to `ok` or `count`, on which only the computed
\* `pick` depends, re-runs no effect function that reads only sum.value
\* (`sum` depends on `foo` and `bar`).
C40_OnlyOwnReaders ==
    \A k \in {"ok", "count"} :
        After("set", k) => \A e \in Old("reader") : runs[e] = pre.runs[e]

====
